---- MODULE Spec2Model ----
(***************************************************************************)
(* Smart locator resolution (core/smart_locator.py) and the presence /     *)
(* visibility probes built on it (core/base_page.py).                      *)
(*                                                                         *)
(* One SmartLocator, one SmartLocatorResolver and one page are modelled.   *)
(* Strings are sequences of fragments (a fragment stands for a run of      *)
(* ordinary characters), so that formatted messages and split() are        *)
(* computed rather than assumed.  The page is held fixed while a call is   *)
(* in progress: each strategy is queried at most once per call, so a page  *)
(* that changes during the call yields the same attempts as the fixed page *)
(* made of the states seen at the moments of the queries.                  *)
(*                                                                         *)
(* The components around the locator have their own specifications: the   *)
(* browser sessions of one BrowserFactory and the settings singleton       *)
(* (SessionSpec, LifecycleSpec), add_items_to_cart (CartSpec), add_to_cart *)
(* (AddSpec), search_items_by_name_under_price (SearchSpec),               *)
(* assert_cart_total_not_exceeds (AssertSpec), the retry helpers           *)
(* (RetrySpec) and two threads probing one locator (ThreadSpec).           *)
(***************************************************************************)
EXTENDS Integers, Sequences, FiniteSets, TLC

VARIABLES
    locators,               \* SmartLocator.locators
    timeout,                \* SmartLocator.timeout
    max_locator_retries,    \* settings.LOCATOR.max_locator_retries
    screenshot_on_failure,  \* settings.LOCATOR.screenshot_on_failure
    screenshot_counter,     \* SmartLocatorResolver._screenshot_counter
    page,                   \* live page: state of the element each strategy queries
    pc,                     \* position of the running call
    op,                     \* the operation the caller invoked
    wait_for_visible,       \* argument of resolve
    attempt_num,            \* loop variable of resolve
    result,                 \* LocatorResolutionResult under construction
    probe_timeout,          \* argument `timeout` of is_element_present / is_element_visible
    original_timeout,       \* local of is_element_present / is_element_visible
    calls,                  \* engine calls made by the running call, in order
    outcome,                \* what the operation handed back to its caller
    probe_raised,           \* history: some probe so far ended by an exception
    BROWSER_MATRIX,         \* settings.BROWSER_MATRIX (the shared BrowserConfig objects)
    session_counter,        \* BrowserFactory._session_counter
    sessions,               \* BrowserFactory._sessions
    browsers,               \* the browsers launched so far, each open or closed
    created,                \* history: the browsers of the sessions create_session returned
    closed,                 \* history: the browsers of the sessions close_session closed
    last_call,              \* history: the close call the last call on the factory was; known: its id was in the registry
    with_pc,                \* position of the running `with factory.session(...)` statement
    with_session,           \* the session the with statement holds
    cart_pc,                \* position of the running add_items_to_cart call
    urls,                   \* argument of add_items_to_cart
    index,                  \* number of loop iterations of add_items_to_cart done
    successful_urls,        \* local of add_items_to_cart
    failed_urls,            \* local of add_items_to_cart
    cart_log,               \* history: what add_to_cart did for each call, in order
    search_pc,              \* position of the running search_items_by_name_under_price call
    max_price,              \* argument of search_items_by_name_under_price, in cents
    limit,                  \* argument of search_items_by_name_under_price
    collected_urls,         \* local of search_items_by_name_under_price
    new_urls,               \* local `urls` of _extract_items_from_current_page
    page_count,             \* local of search_items_by_name_under_price
    items_left,             \* result items of the current page not yet iterated
    item,                   \* the result item of the last loop iteration
    origin,                 \* history: the result item each collected URL was read from
    search_outcome,          \* what search_items_by_name_under_price handed back
    assert_pc,              \* position of the running assert_cart_total_not_exceeds call
    budget_per_item,        \* argument of assert_cart_total_not_exceeds, in cents
    items_count,            \* argument of assert_cart_total_not_exceeds
    cart_view,              \* live cart page: what its elements show
    assert_calls,           \* history: the reads of the cart page the call made, in order
    assert_result,           \* what assert_cart_total_not_exceeds handed back
    add_pc,                 \* position of the running add_to_cart call
    product_view,           \* live product page: what the steps of add_to_cart meet
    clicked,                \* what _click_add_to_cart returned
    added,                  \* local `success` of add_to_cart: what _verify_added_to_cart returned
    verified_by,            \* history: the return statement _verify_added_to_cart left by
    add_raised,             \* history: a step in the try block of add_to_cart raised
    add_outcome,             \* what add_to_cart handed back
    retry_pc,               \* position of the running retry operation
    retry_mode,             \* how the operation retries: execute_with_retry, the decorator or a RetryContext
    max_retries_arg,        \* argument max_retries of the constructor
    exceptions_to_catch,    \* RetryHandler.exceptions_to_catch
    handler_max_retries,    \* RetryHandler.max_retries
    attempt,                \* loop variable of execute_with_retry
    retry_result,           \* the RetryResult of execute_with_retry
    invocations,            \* history: how each invocation of the function ended, in order
    ctx_attempt,            \* RetryContext._attempt
    ctx_succeeded,          \* RetryContext._succeeded
    ctx_last_error,         \* RetryContext._last_error
    yielded,                \* history: the indices __next__ returned, in order
    retry_outcome,           \* what the operation handed back to its caller
    shared_timeout,         \* SmartLocator.timeout of the locator two threads probe
    timeout_before,         \* history: shared_timeout when the two probes were called
    thread_pc,              \* position of the probe of each thread
    thread_override,        \* argument `timeout` of the probe of each thread
    thread_original,        \* local original_timeout of the probe of each thread
    thread_attempts,        \* the strategies resolve has tried in each thread
    thread_waits            \* history: the waits of the two probes, with the timeout each ran with

locator_vars == <<locators, timeout, max_locator_retries, screenshot_on_failure,
                  screenshot_counter, page, pc, op, wait_for_visible, attempt_num,
                  result, probe_timeout, original_timeout, calls, outcome,
                  probe_raised>>

\* The factory, its browsers and the settings
session_state == <<BROWSER_MATRIX, session_counter, sessions, browsers, created, closed>>

session_vars == <<session_state, last_call, with_pc, with_session>>

cart_vars == <<cart_pc, urls, index, successful_urls, failed_urls, cart_log>>

search_vars == <<search_pc, max_price, limit, collected_urls, new_urls,
                 page_count, items_left, item, origin, search_outcome>>

assert_vars == <<assert_pc, budget_per_item, items_count, cart_view, assert_calls, assert_result>>

add_vars == <<add_pc, product_view, clicked, added, verified_by, add_raised, add_outcome>>

retry_vars == <<retry_pc, retry_mode, max_retries_arg, exceptions_to_catch, handler_max_retries, attempt, retry_result, invocations, ctx_attempt, ctx_succeeded, ctx_last_error, yielded, retry_outcome>>

thread_vars == <<shared_timeout, timeout_before, thread_pc, thread_override, thread_original, thread_attempts, thread_waits>>

\* The state outside the locator, its resolver and its page
pages_and_sessions == <<session_vars, cart_vars, search_vars, assert_vars, add_vars, retry_vars, thread_vars>>

\* The state outside the browser factory and the settings
outside_sessions == <<locator_vars, cart_vars, search_vars, assert_vars, add_vars, retry_vars, thread_vars>>

\* The state outside add_items_to_cart
outside_cart == <<locator_vars, session_vars, search_vars, assert_vars, add_vars, retry_vars, thread_vars>>

\* The state outside search_items_by_name_under_price
outside_search == <<locator_vars, session_vars, cart_vars, assert_vars, add_vars, retry_vars, thread_vars>>

\* The state outside assert_cart_total_not_exceeds
outside_assert == <<locator_vars, session_vars, cart_vars, search_vars, add_vars, retry_vars, thread_vars>>

\* The state outside add_to_cart
outside_add == <<locator_vars, session_vars, cart_vars, search_vars, assert_vars, retry_vars, thread_vars>>

\* The state outside the retry helpers
outside_retry == <<locator_vars, session_vars, cart_vars, search_vars, assert_vars, add_vars, thread_vars>>

\* The state outside the two threads that probe one locator
outside_thread == <<locator_vars, session_vars, cart_vars, search_vars, assert_vars, add_vars, retry_vars>>

vars == <<locator_vars, session_vars, cart_vars, search_vars, assert_vars, add_vars, retry_vars, thread_vars>>

-----------------------------------------------------------------------------
(* Bounds *)

MaxLocators == 2

MaxRetries == 3

MaxScreenshots == 2

\* Cap of BrowserFactory._session_counter
MaxSessionCounter == 3

\* create_session launches at most MaxLaunches browsers
MaxLaunches == 3

\* Longest list of URLs handed to add_items_to_cart
MaxUrls == 3

\* Largest `limit` handed to search_items_by_name_under_price
MaxLimit == 2

\* Most result items on one page
MaxItems == 2

(* Program constants *)

LocatorTimeout == 5000

DefaultProbeTimeout == 5000

ShortProbeTimeout == 2000

DefaultWaitTimeout == 30000

\* LocatorConfig.max_locator_retries
DefaultMaxLocatorRetries == 3

\* max_pages of search_items_by_name_under_price
MaxPages == 5

\* Python's None; the empty tuple differs from every record and every
\* non-empty string of fragments.
None == <<>>

\* No operation is running.
NoOp == "none"

\* A local that holds no timeout yet.
NoTimeout == 0

Name == <<"Search Button">>

-----------------------------------------------------------------------------
(* Data model *)

LocatorType ==
    {"xpath", "css", "text", "role", "test_id", "label", "placeholder", "alt_text"}

\* A member of some other Enum: it has .value but matches no case of the adapter.
ForeignKind == "foreign"

\* A kind that is no Enum member at all (a plain string): it has no .value.
PlainKind == "plain"

HasValueAttr(kind) == kind /= PlainKind

LocatorDefinition(locator_type, value) ==
    [locator_type |-> locator_type, value |-> value]

LocatorAttemptResult(locator_def, n, success, error_message) ==
    [locator_definition |-> locator_def, attempt_number |-> n,
     success |-> success, error_message |-> error_message]

\* Mutant of LocatorResolutionResult: a new result starts as a success.
LocatorResolutionResultOptimistic(name) ==
    [smart_locator_name |-> name, success |-> TRUE,
     playwright_locator |-> None, successful_locator |-> None,
     attempts |-> <<>>, total_attempts |-> 0, screenshot_path |-> None]

LocatorResolutionResult(name) ==
    [smart_locator_name |-> name, success |-> FALSE,
     playwright_locator |-> None, successful_locator |-> None,
     attempts |-> <<>>, total_attempts |-> 0, screenshot_path |-> None]

Min(a, b) == IF a <= b THEN a ELSE b

-----------------------------------------------------------------------------
(* Strings as sequences of fragments *)

RECURSIVE SplitAcc(_, _, _, _)
SplitAcc(s, sep, cur, acc) ==
    IF s = <<>> THEN Append(acc, cur)
    ELSE IF Head(s) = sep THEN SplitAcc(Tail(s), sep, <<>>, Append(acc, cur))
    ELSE SplitAcc(Tail(s), sep, Append(cur, Head(s)), acc)

\* str.split(sep) for a one-character separator
Split(s, sep) == SplitAcc(s, sep, <<>>, <<>>)

RECURSIVE RStrip(_, _)
\* str.rstrip(ch)
RStrip(s, ch) ==
    IF s /= <<>> /\ s[Len(s)] = ch THEN RStrip(SubSeq(s, 1, Len(s) - 1), ch) ELSE s

-----------------------------------------------------------------------------
(* The engine *)

\* State of the element that one strategy's query denotes on the live page.
\*   absent   - nothing matches
\*   hidden   - one element attached, not visible
\*   visible  - one element attached and visible
\*   stale    - the wait is satisfied but the element is gone when counted
\*   invalid  - the engine rejects the query (malformed selector)
ElementStates == {"absent", "hidden", "visible", "stale", "invalid"}

\* Locator.wait_for(state, timeout): "ok", or the exception it raises
WaitFor(el, state) ==
    CASE el = "invalid" -> "Error"
      [] el = "visible" -> "ok"
      [] el = "stale"   -> "ok"
      [] el = "hidden"  -> IF state = "attached" THEN "ok" ELSE "TimeoutError"
      [] OTHER          -> "TimeoutError"

\* Locator.count()
Count(el) == IF el \in {"hidden", "visible"} THEN 1 ELSE 0

EngineMessage(exc) ==
    IF exc = "TimeoutError" THEN <<"Timeout exceeded.">>
    ELSE <<"Unexpected token while parsing selector">>

-----------------------------------------------------------------------------
(* SmartLocatorResolver *)

Handle(method, args) == [method |-> method, args |-> args]

Returned(v) == [ok |-> TRUE, value |-> v]

Raised(exc, message) == [ok |-> FALSE, exc |-> exc, message |-> message]

\* The ROLE case: "button[name=Submit]" or just "button"
RoleLocator(value) ==
    LET parts == Split(value, "[")
        role  == parts[1]
    IN  IF Len(parts) > 1
        THEN LET kv == Split(RStrip(parts[2], "]"), "=")
             IN  IF Len(kv) > 1
                 THEN Returned(Handle("get_by_role", <<role, kv[2]>>))
                 ELSE Raised("IndexError", <<"list index out of range">>)
        ELSE Returned(Handle("get_by_role", <<role>>))

\* SmartLocatorResolver._get_playwright_locator
GetPlaywrightLocator(locator_def) ==
    LET v == locator_def.value
    IN  CASE locator_def.locator_type = "xpath" ->
                Returned(Handle("locator", <<<<"xpath=">> \o v>>))
          [] locator_def.locator_type = "css" ->
                Returned(Handle("locator", <<v>>))
          [] locator_def.locator_type = "text" ->
                Returned(Handle("get_by_text", <<v>>))
          [] locator_def.locator_type = "role" ->
                RoleLocator(v)
          [] locator_def.locator_type = "test_id" ->
                Returned(Handle("get_by_test_id", <<v>>))
          [] locator_def.locator_type = "label" ->
                Returned(Handle("get_by_label", <<v>>))
          [] locator_def.locator_type = "placeholder" ->
                Returned(Handle("get_by_placeholder", <<v>>))
          [] locator_def.locator_type = "alt_text" ->
                Returned(Handle("get_by_alt_text", <<v>>))
          [] OTHER ->
                Raised("ValueError",
                       <<"Unknown locator type: ", locator_def.locator_type>>)

\* Mutant of MaxAttempts: the retry cap is not applied.
MaxAttemptsUncapped(n, k) == n

\* min(len(smart_locator.locators), settings.LOCATOR.max_locator_retries)
MaxAttempts(n, k) == Min(n, k)

\* Mutant of EntryStep: no early return for an empty catalog.
EntryStepNoEmptyCheck(n, k) ==
    IF MaxAttempts(n, k) = 0 THEN "failing" ELSE "trying"

\* Where resolve goes from its entry: the early return for an empty catalog,
\* the loop, or past a loop of zero iterations.
EntryStep(n, k) ==
    IF n = 0 THEN "resolved"
    ELSE IF MaxAttempts(n, k) = 0 THEN "failing"
    ELSE "trying"

\* Mutant of ElementFound: a count of zero passes.
ElementFoundAnyCount(count) == count >= 0

\* playwright_locator.count() > 0
ElementFound(count) == count > 0

\* Mutant of HandlerFor: only the timeout is handled.
HandlerForTimeoutOnly(exc) == IF exc = "TimeoutError" THEN "timeout" ELSE "uncaught"

\* The except clause of resolve that takes an exception raised in the try
\* block ("except PlaywrightTimeout", then "except Exception"); every
\* exception the adapter and the engine raise derives from Exception.
HandlerFor(exc) == IF exc = "TimeoutError" THEN "timeout" ELSE "exception"

\* The try block of one loop iteration of resolve and its except clauses:
\* the attempt's success flag, error message, handle and engine calls, or
\* the exception that leaves the loop.
TryLocator(locator_def, el, visible, tmo) ==
    LET adapted == GetPlaywrightLocator(locator_def)
        state   == IF visible THEN "visible" ELSE "attached"
        waited  == WaitFor(el, state)
        c_adapt == [fn |-> "_get_playwright_locator", arg |-> locator_def]
        c_wait  == [fn |-> "wait_for", arg |-> <<state, tmo>>]
        c_count == [fn |-> "count", arg |-> <<>>]
        failed(msg, cs) ==
            [success |-> FALSE, error_message |-> msg,
             playwright_locator |-> None, engine_calls |-> cs,
             uncaught |-> None]
        caught(exc, message, cs) ==
            CASE HandlerFor(exc) = "timeout" ->
                    failed(<<"Timeout: ">> \o message, cs)
              [] HandlerFor(exc) = "exception" ->
                    failed(message, cs)
              [] OTHER ->
                    [failed(None, cs) EXCEPT !.uncaught = Raised(exc, message)]
    IN  IF ~adapted.ok
        THEN caught(adapted.exc, adapted.message, <<c_adapt>>)
        ELSE IF waited /= "ok"
        THEN caught(waited, EngineMessage(waited), <<c_adapt, c_wait>>)
        ELSE IF ElementFound(Count(el))
        THEN [success |-> TRUE, error_message |-> None,
              playwright_locator |-> adapted.value,
              engine_calls |-> <<c_adapt, c_wait, c_count>>,
              uncaught |-> None]
        ELSE failed(<<"No elements found">>, <<c_adapt, c_wait, c_count>>)

\* Mutant of RecordSuccess: the handle is not stored in the result.
RecordSuccessNoHandle(res, locator_def, handle, attempt_result) ==
    [res EXCEPT !.success = TRUE,
                !.successful_locator = locator_def,
                !.attempts = Append(@, attempt_result)]

\* The result after a successful attempt
RecordSuccess(res, locator_def, handle, attempt_result) ==
    [res EXCEPT !.success = TRUE,
                !.playwright_locator = handle,
                !.successful_locator = locator_def,
                !.attempts = Append(@, attempt_result)]

\* Mutant of RecordFailure: a failed attempt is not appended to the trace.
RecordFailureDropped(res, attempt_result) == res

\* The result after a failed attempt: result.attempts.append(attempt_result)
RecordFailure(res, attempt_result) ==
    [res EXCEPT !.attempts = Append(@, attempt_result)]

\* Mutant of FirstAttemptNum: after an earlier total failure the first
\* strategy is skipped.
FirstAttemptNumSkipsFailed(n, failures) ==
    IF failures > 0 /\ n > 1 THEN 2 ELSE 1

\* enumerate(smart_locator.locators[:max_attempts], 1): the loop starts at
\* the first strategy, whatever the resolver has seen before.
FirstAttemptNum(n, failures) == 1

\* Mutant of NextAttemptNum: the loop does not advance.
NextAttemptNumStuck(n) == n

\* enumerate: the next iteration takes the next strategy
NextAttemptNum(n) == n + 1

\* Mutant of WaitBound: the framework's default wait timeout is passed.
WaitBoundDefault(locator_timeout) == DefaultWaitTimeout

\* timeout=smart_locator.timeout in both wait_for calls
WaitBound(locator_timeout) == locator_timeout

\* Mutant of NextStep: a success does not leave the loop.
NextStepNoReturn(success, n, max_attempts) ==
    IF n < max_attempts THEN "trying"
    ELSE IF success THEN "resolved"
    ELSE "failing"

\* Where resolve goes after an attempt: "return result" on success, the next
\* iteration, or past the loop.
NextStep(success, n, max_attempts) ==
    IF success THEN "resolved"
    ELSE IF n < max_attempts THEN "trying"
    ELSE "failing"

\* str(x) for an optional string
Str(x) == IF x = None THEN <<"None">> ELSE x

\* File name built by _capture_failure_screenshot
ScreenshotPath(name, counter) ==
    <<"reports/screenshots/", "locator_failure_">> \o name
        \o <<"_", "%Y%m%d_%H%M%S", "_", ToString(counter), ".png">>

\* Mutant of CaptureFailureScreenshot: the configuration flag is ignored.
CaptureFailureScreenshotAlways(enabled, shot, name, counter) ==
    IF shot = "saved" THEN ScreenshotPath(name, counter + 1) ELSE None

\* The value _capture_failure_screenshot returns; shot is what the file
\* system and the engine do: "saved", "mkdir_failed" (ensure_directories
\* raises) or "screenshot_failed" (page.screenshot raises).
CaptureFailureScreenshot(enabled, shot, name, counter) ==
    IF ~enabled THEN None
    ELSE IF shot = "saved" THEN ScreenshotPath(name, counter + 1)
    ELSE None

\* Message of the ElementNotFoundError raised by find_element
NotFoundMessage(name, res) ==
    <<"Could not find element '">> \o name
        \o <<"' after ", ToString(res.total_attempts), " attempts. ", "Screenshot: ">>
        \o Str(res.screenshot_path)

\* Mutant of FindElementOutcome: the handle, or None, is returned either way.
FindElementOutcomeSafe(name, res) ==
    [kind |-> "return", value |-> res.playwright_locator]

\* find_element after resolve returned res
FindElementOutcome(name, res) ==
    IF ~res.success
    THEN [kind |-> "raise", exc |-> "ElementNotFoundError",
          message |-> NotFoundMessage(name, res)]
    ELSE [kind |-> "return", value |-> res.playwright_locator]

\* Mutant of RestoredTimeout: the override stays.
RestoredTimeoutKeepsOverride(original, override) == override

\* smart_locator.timeout = original_timeout, after resolve returned
RestoredTimeout(original, override) == original

-----------------------------------------------------------------------------
(* State *)

NoOutcome == [kind |-> "none"]

Probes == {"is_element_present", "is_element_visible"}

\* settings.BROWSER_MATRIX as the settings module builds it: every entry is
\* headless (two of the seven entries are modelled)
DefaultMatrix ==
    [b \in {"chromium", "firefox"} |-> [name |-> b, headless |-> TRUE]]

NoCall == [fn |-> "other", known |-> FALSE]

NoSession == [session_id |-> <<"none", 0>>, browser |-> 0]

\* A BrowserFactory after __init__, and the settings singleton after import
SessionInit ==
    /\ BROWSER_MATRIX = DefaultMatrix
    /\ session_counter = 0
    /\ sessions = <<>>
    /\ browsers = <<>>
    /\ created = {}
    /\ closed = {}
    /\ last_call = NoCall
    /\ with_pc = "none"
    /\ with_session = NoSession

\* No add_items_to_cart call is running
CartInit ==
    /\ cart_pc = "idle"
    /\ urls = <<>>
    /\ index = 0
    /\ successful_urls = <<>>
    /\ failed_urls = <<>>
    /\ cart_log = <<>>

\* The item of no loop iteration
NoItem == [price |-> "none", price_text |-> <<>>, href |-> <<>>, link |-> "none"]

\* No search_items_by_name_under_price call is running
SearchInit ==
    /\ search_pc = "idle"
    /\ max_price = 0
    /\ limit = 0
    /\ collected_urls = <<>>
    /\ new_urls = <<>>
    /\ page_count = 0
    /\ items_left = 0
    /\ item = NoItem
    /\ origin = {}
    /\ search_outcome = NoOutcome

NoCartView == [page_load |-> "none", empty_cart |-> "none", subtotal |-> <<>>,
               total |-> <<>>, fallback |-> <<>>, cart_items |-> 0]

NoAssertResult == [assertion_passed |-> FALSE, reason |-> "none"]

\* No assert_cart_total_not_exceeds call is running
AssertInit ==
    /\ assert_pc = "idle"
    /\ budget_per_item = 0
    /\ items_count = 0
    /\ cart_view = NoCartView
    /\ assert_calls = <<>>
    /\ assert_result = NoAssertResult

NoProductView == [prepare |-> "none", button |-> "none", click |-> "none",
                  wait |-> "none", verify_wait |-> "none", confirmation |-> "none",
                  current_url |-> <<>>, screenshot |-> "none",
                  error_screenshot |-> "none"]

\* No add_to_cart call is running
AddInit ==
    /\ add_pc = "idle"
    /\ product_view = NoProductView
    /\ clicked = "None"
    /\ added = "None"
    /\ verified_by = "none"
    /\ add_raised = FALSE
    /\ add_outcome = "None"

NoError == [type |-> "None", at |-> 0]

NoArg == [given |-> FALSE]

\* RetryResult(success=False)
RetryResult == [success |-> FALSE, result |-> "None", attempts |-> 0,
                last_error |-> NoError, errors |-> <<>>]

\* No retry operation is running and no handler is constructed
RetryInit ==
    /\ retry_pc = "none"
    /\ retry_mode = "none"
    /\ max_retries_arg = NoArg
    /\ exceptions_to_catch = {}
    /\ handler_max_retries = 0
    /\ attempt = 0
    /\ retry_result = RetryResult
    /\ invocations = <<>>
    /\ ctx_attempt = 0
    /\ ctx_succeeded = FALSE
    /\ ctx_last_error = NoError
    /\ yielded = <<>>
    /\ retry_outcome = NoOutcome

Threads == {1, 2}

\* Two threads share a SmartLocator; no probe is running
ThreadInit ==
    /\ shared_timeout = LocatorTimeout
    /\ timeout_before = LocatorTimeout
    /\ thread_pc = [t \in Threads |-> "idle"]
    /\ thread_override = [t \in Threads |-> NoTimeout]
    /\ thread_original = [t \in Threads |-> NoTimeout]
    /\ thread_attempts = [t \in Threads |-> 0]
    /\ thread_waits = <<>>

Init ==
    /\ locators = <<>>
    /\ timeout = LocatorTimeout
    /\ max_locator_retries \in 0..MaxRetries
    /\ screenshot_on_failure \in BOOLEAN
    /\ screenshot_counter = 0
    /\ page = [i \in 1..MaxLocators |-> "absent"]
    /\ pc = "idle"
    /\ op = NoOp
    /\ wait_for_visible = FALSE
    /\ attempt_num = 0
    /\ result = None
    /\ probe_timeout = NoTimeout
    /\ original_timeout = NoTimeout
    /\ calls = <<>>
    /\ outcome = NoOutcome
    /\ probe_raised = FALSE
    /\ SessionInit
    /\ CartInit
    /\ SearchInit
    /\ AssertInit
    /\ AddInit
    /\ RetryInit
    /\ ThreadInit

\* The initial state with the locator settings the settings module defines
DefaultSettingsInit ==
    /\ Init
    /\ max_locator_retries = DefaultMaxLocatorRetries
    /\ screenshot_on_failure = TRUE

config == <<max_locator_retries, screenshot_on_failure>>

call_locals == <<op, wait_for_visible, attempt_num, result, probe_timeout,
                 original_timeout, calls, outcome>>

-----------------------------------------------------------------------------
(* Building the catalog; the page *)

\* SmartLocator.add_locator
add_locator(locator_type, value) ==
    /\ pc = "idle"
    /\ Len(locators) < MaxLocators
    /\ locators' = Append(locators, LocatorDefinition(locator_type, value))
    /\ UNCHANGED <<timeout, config, pages_and_sessions, screenshot_counter, page, pc, call_locals,
                   probe_raised>>

add_xpath == add_locator("xpath", <<"//button">>)

add_css == add_locator("css", <<"button.search">>)

\* A role with a bracket that holds no name= assignment
add_role == add_locator("role", <<"button", "[", "disabled", "]">>)

\* add_locator called with something that is no LocatorType member
add_unknown == \E kind \in {ForeignKind, PlainKind} : add_locator(kind, <<"x">>)

\* The site changes the element that a strategy's query denotes.
PageChange ==
    /\ pc = "idle"
    /\ \E i \in 1..Len(locators), el \in ElementStates :
          /\ GetPlaywrightLocator(locators[i]).ok
          /\ el /= page[i]
          /\ page' = [page EXCEPT ![i] = el]
    /\ UNCHANGED <<locators, timeout, config, pages_and_sessions, screenshot_counter, pc, call_locals,
                   probe_raised>>

-----------------------------------------------------------------------------
(* Calls *)

Enter(operation, visible) ==
    /\ pc = "idle"
    /\ screenshot_counter < MaxScreenshots
    /\ pc' = "pending"
    /\ op' = operation
    /\ wait_for_visible' = visible
    /\ result' = LocatorResolutionResult(Name)
    /\ UNCHANGED <<locators, config, pages_and_sessions, screenshot_counter, page, attempt_num,
                   calls, outcome, probe_raised>>

\* SmartLocatorResolver.resolve called directly
resolve ==
    /\ \E visible \in BOOLEAN : Enter("resolve", visible)
    /\ UNCHANGED <<timeout, probe_timeout, original_timeout>>

\* SmartLocatorResolver.find_element up to its call of resolve
find_element ==
    /\ \E visible \in BOOLEAN : Enter("find_element", visible)
    /\ UNCHANGED <<timeout, probe_timeout, original_timeout>>

\* Mutant of is_element_present: the probe waits for a visible element.
IsElementPresentWaitsVisible ==
    \E t \in {DefaultProbeTimeout, ShortProbeTimeout} :
        /\ Enter("is_element_present", TRUE)
        /\ probe_timeout' = t
        /\ original_timeout' = timeout
        /\ timeout' = t

\* BasePage.is_element_present up to its call of resolve
is_element_present ==
    \E t \in {DefaultProbeTimeout, ShortProbeTimeout} :
        /\ Enter("is_element_present", FALSE)
        /\ probe_timeout' = t
        /\ original_timeout' = timeout
        /\ timeout' = t

\* BasePage.is_element_visible up to its call of resolve
is_element_visible ==
    \E t \in {DefaultProbeTimeout, ShortProbeTimeout} :
        /\ Enter("is_element_visible", TRUE)
        /\ probe_timeout' = t
        /\ original_timeout' = timeout
        /\ timeout' = t

\* An exception leaves resolve and, no caller handling it, the operation.
Propagate(exc) ==
    /\ pc' = "raised"
    /\ outcome' = [kind |-> "raise", exc |-> exc.exc, message |-> exc.message]
    /\ probe_raised' = (probe_raised \/ op \in Probes)

\* resolve, from its entry to the loop
ResolveBegin ==
    /\ pc = "pending"
    /\ pc' = EntryStep(Len(locators), max_locator_retries)
    /\ attempt_num' = IF pc' = "trying"
                      THEN FirstAttemptNum(Len(locators), screenshot_counter)
                      ELSE attempt_num
    /\ UNCHANGED <<locators, timeout, config, pages_and_sessions, screenshot_counter, page, op,
                   wait_for_visible, result, probe_timeout, original_timeout,
                   calls, outcome, probe_raised>>

\* One iteration of the loop of resolve
Attempt ==
    /\ pc = "trying"
    /\ LET locator_def == locators[attempt_num]
           max_attempts == MaxAttempts(Len(locators), max_locator_retries)
           counted == [result EXCEPT !.total_attempts = attempt_num]
       IN  IF ~HasValueAttr(locator_def.locator_type)
           THEN \* locator_def.locator_type.value in the debug message
                /\ result' = counted
                /\ Propagate(Raised("AttributeError",
                                    <<"'str' object has no attribute 'value'">>))
                /\ UNCHANGED <<attempt_num, calls>>
           ELSE LET t == TryLocator(locator_def, page[attempt_num],
                                    wait_for_visible, WaitBound(timeout))
                    attempt_result ==
                        LocatorAttemptResult(locator_def, attempt_num,
                                             t.success, t.error_message)
                IN  /\ calls' = calls \o t.engine_calls
                    /\ IF t.uncaught /= None
                       THEN /\ result' = counted
                            /\ Propagate(t.uncaught)
                            /\ UNCHANGED attempt_num
                       ELSE /\ result' =
                                 IF t.success
                                 THEN RecordSuccess(counted, locator_def,
                                                    t.playwright_locator,
                                                    attempt_result)
                                 ELSE RecordFailure(counted, attempt_result)
                            /\ pc' = NextStep(t.success, attempt_num, max_attempts)
                            /\ attempt_num' = IF pc' = "trying"
                                              THEN NextAttemptNum(attempt_num)
                                              ELSE attempt_num
                            /\ UNCHANGED <<outcome, probe_raised>>
    /\ UNCHANGED <<locators, timeout, config, pages_and_sessions, screenshot_counter, page, op,
                   wait_for_visible, probe_timeout, original_timeout>>

\* The end of resolve after the loop: _capture_failure_screenshot
AllAttemptsFailed ==
    /\ pc = "failing"
    /\ \E shot \in {"saved", "mkdir_failed", "screenshot_failed"} :
          /\ result' = [result EXCEPT !.screenshot_path =
                           CaptureFailureScreenshot(screenshot_on_failure, shot,
                                                    Name, screenshot_counter)]
          /\ IF screenshot_on_failure /\ shot /= "mkdir_failed"
             THEN /\ screenshot_counter' = screenshot_counter + 1
                  /\ calls' = Append(calls, [fn |-> "screenshot", arg |-> <<>>])
             ELSE UNCHANGED <<screenshot_counter, calls>>
    /\ pc' = "resolved"
    /\ UNCHANGED <<locators, timeout, config, pages_and_sessions, page, op, wait_for_visible,
                   attempt_num, probe_timeout, original_timeout, outcome,
                   probe_raised>>

\* resolve returns to a caller that called it directly
ResolveReturn ==
    /\ pc = "resolved"
    /\ op = "resolve"
    /\ outcome' = [kind |-> "return", value |-> result]
    /\ pc' = "done"
    /\ UNCHANGED <<locators, timeout, config, pages_and_sessions, screenshot_counter, page, op,
                   wait_for_visible, attempt_num, result, probe_timeout,
                   original_timeout, calls, probe_raised>>

\* find_element after resolve returned
FindElementFinish ==
    /\ pc = "resolved"
    /\ op = "find_element"
    /\ outcome' = FindElementOutcome(Name, result)
    /\ pc' = IF outcome'.kind = "raise" THEN "raised" ELSE "done"
    /\ UNCHANGED <<locators, timeout, config, pages_and_sessions, screenshot_counter, page, op,
                   wait_for_visible, attempt_num, result, probe_timeout,
                   original_timeout, calls, probe_raised>>

\* is_element_present / is_element_visible after resolve returned
ProbeFinish ==
    /\ pc = "resolved"
    /\ op \in Probes
    /\ timeout' = RestoredTimeout(original_timeout, timeout)
    /\ outcome' = [kind |-> "return", value |-> result.success]
    /\ pc' = "done"
    /\ UNCHANGED <<locators, config, pages_and_sessions, screenshot_counter, page, op,
                   wait_for_visible, attempt_num, result, probe_timeout,
                   original_timeout, calls, probe_raised>>

\* The caller takes the outcome; the locals of the call are gone.
Consume ==
    /\ pc \in {"done", "raised"}
    /\ pc' = "idle"
    /\ op' = NoOp
    /\ wait_for_visible' = FALSE
    /\ attempt_num' = 0
    /\ result' = None
    /\ probe_timeout' = NoTimeout
    /\ original_timeout' = NoTimeout
    /\ calls' = <<>>
    /\ outcome' = NoOutcome
    /\ UNCHANGED <<locators, timeout, config, pages_and_sessions, screenshot_counter, page,
                   probe_raised>>

Next ==
    \/ add_xpath
    \/ add_css
    \/ add_role
    \/ add_unknown
    \/ PageChange
    \/ resolve
    \/ find_element
    \/ is_element_present
    \/ is_element_visible
    \/ ResolveBegin
    \/ Attempt
    \/ AllAttemptsFailed
    \/ ResolveReturn
    \/ FindElementFinish
    \/ ProbeFinish
    \/ Consume

Spec == Init /\ [][Next]_vars

\* resolve is synchronous: once called, its thread runs the entry, every
\* loop iteration (each wait is bounded by the timeout) and the failure path.
\* The steps of direct resolve calls, without the wrapping operations
ResolveNext ==
    \/ add_xpath
    \/ add_css
    \/ add_role
    \/ add_unknown
    \/ PageChange
    \/ resolve
    \/ ResolveBegin
    \/ Attempt
    \/ AllAttemptsFailed
    \/ ResolveReturn
    \/ Consume

LiveSpec ==
    /\ Init
    /\ [][ResolveNext]_vars
    /\ WF_vars(ResolveBegin)
    /\ WF_vars(Attempt)
    /\ WF_vars(AllAttemptsFailed)

-----------------------------------------------------------------------------
(* Browser sessions (core/browser_factory.py, config/settings.py) *)

\* Browser names a caller may ask for; "opera" is no key of the matrix
RequestedBrowsers == {"chromium", "firefox", "opera"}

\* The argument `headless` of create_session: None or a bool
HeadlessArgs == {"None", "True", "False"}

\* The engine call of create_session that raises: browser_type.launch,
\* browser.new_context, context.tracing.start, context.new_page, or none
CreateFailures == {"none", "launch", "new_context", "tracing_start", "new_page"}

\* settings.get_browser_config: the BrowserConfig object of the matrix, with
\* chromium's as the fallback.  The value is the key of the object: the
\* object itself is returned, not a copy.
get_browser_config(browser_name) ==
    IF browser_name \in DOMAIN BROWSER_MATRIX THEN browser_name ELSE "chromium"

\* The number _generate_session_id is called in one create_session: once
\* for the HAR file, once for the trace file, once for the session
IdsGenerated(record_har, record_trace) ==
    (IF record_har THEN 1 ELSE 0) + (IF record_trace THEN 1 ELSE 0) + 1

\* The number _generate_session_id is called in a create_session that the
\* given engine call leaves by an exception
IdsGeneratedBefore(record_har, record_trace, fails) ==
    CASE fails = "launch" -> 0
      [] fails = "new_context" -> IF record_har THEN 1 ELSE 0
      [] fails \in {"tracing_start", "new_page"} ->
            (IF record_har THEN 1 ELSE 0) + (IF record_trace THEN 1 ELSE 0)
      [] OTHER -> IdsGenerated(record_har, record_trace)

\* The matrix after the override of create_session on the config object
OverrideHeadless(matrix, cfg, headless) ==
    IF headless = "None" THEN matrix
    ELSE [matrix EXCEPT ![cfg].headless = (headless = "True")]

\* Mutant of SessionId: the counter is left out of the id.
SessionIdNoCounter(browser_name, counter) == <<browser_name, 0>>

\* _generate_session_id: the id, its timestamp left out
SessionId(browser_name, counter) == <<browser_name, counter>>

\* The ids of the registry, in the order of insertion
Keys(registry) == [k \in 1..Len(registry) |-> registry[k].session_id]

\* self._sessions[session_id] = session
Put(registry, session) ==
    IF \E k \in 1..Len(registry) : registry[k].session_id = session.session_id
    THEN [k \in 1..Len(registry) |->
             IF registry[k].session_id = session.session_id THEN session
             ELSE registry[k]]
    ELSE Append(registry, session)

\* The factory and the settings, as the operations below pass them on
Factory ==
    [matrix |-> BROWSER_MATRIX, counter |-> session_counter, registry |-> sessions,
     browsers |-> browsers, created |-> created, closed |-> closed]

\* A create_session call fits the bounds
CanCreate(f, record_har, record_trace) ==
    /\ f.counter + IdsGenerated(record_har, record_trace) <= MaxSessionCounter
    /\ Len(f.browsers) < MaxLaunches

\* The session a create_session call builds
NewSession(f, browser_name, headless, record_har, record_trace) ==
    [session_id |-> SessionId(browser_name,
                              f.counter + IdsGenerated(record_har, record_trace)),
     browser |-> Len(f.browsers) + 1,
     browser_config |-> get_browser_config(browser_name),
     launch_headless |->
         OverrideHeadless(f.matrix, get_browser_config(browser_name),
                          headless)[get_browser_config(browser_name)].headless,
     headless_arg |-> headless]

\* BrowserFactory.create_session on the factory f; fails is the engine call
\* that raises.  A launched browser is open; the session is registered at
\* the end.
CreateSession(f, browser_name, headless, record_har, record_trace, fails) ==
    LET session == NewSession(f, browser_name, headless, record_har, record_trace)
    IN  [f EXCEPT
            !.matrix = OverrideHeadless(@, get_browser_config(browser_name), headless),
            !.counter = @ + IdsGeneratedBefore(record_har, record_trace, fails),
            !.browsers = IF fails = "launch" THEN @ ELSE Append(@, "open"),
            !.registry = IF fails = "none" THEN Put(@, session) ELSE @,
            !.created = IF fails = "none" THEN @ \cup {session.browser} ELSE @]

\* BrowserSession.close of every session of the registry with the id, and
\* its removal: every step of close swallows its exception, the browser is
\* closed at the end
CloseSession(f, session_id) ==
    LET named == {k \in 1..Len(f.registry) : f.registry[k].session_id = session_id}
        IsOther(s) == s.session_id /= session_id
    IN  [f EXCEPT
            !.registry = SelectSeq(@, IsOther),
            !.browsers = [b \in 1..Len(@) |->
                             IF \E k \in named : f.registry[k].browser = b
                             THEN "closed" ELSE @[b]],
            !.closed = @ \cup {f.registry[k].browser : k \in named}]

\* The factory f becomes the state
Becomes(f) ==
    /\ BROWSER_MATRIX' = f.matrix
    /\ session_counter' = f.counter
    /\ sessions' = f.registry
    /\ browsers' = f.browsers
    /\ created' = f.created
    /\ closed' = f.closed

\* BrowserFactory.create_session, its argument headless one of heads
CreateSessionCall(heads) ==
    \E browser_name \in RequestedBrowsers, headless \in heads,
       record_har \in BOOLEAN, record_trace \in BOOLEAN, fails \in CreateFailures :
        /\ CanCreate(Factory, record_har, record_trace)
        /\ fails = "tracing_start" => record_trace
        /\ Becomes(CreateSession(Factory, browser_name, headless, record_har,
                                 record_trace, fails))
        /\ last_call' = NoCall
        /\ UNCHANGED <<with_pc, with_session>>
        /\ UNCHANGED outside_sessions

\* BrowserFactory.create_session
create_session == CreateSessionCall(HeadlessArgs)

\* BrowserFactory.create_session without the argument headless
create_session_as_configured == CreateSessionCall({"None"})

\* Session ids a caller may name: the ids handed out so far and one that
\* never was
SessionIds ==
    {SessionId(b, n) : b \in RequestedBrowsers, n \in 1..session_counter}
        \cup {SessionId("chromium", 0)}

\* The registry holds a session under the id
Tracked(session_id) == \E k \in 1..Len(sessions) : sessions[k].session_id = session_id

\* BrowserFactory.close_session
close_session ==
    \E session_id \in SessionIds :
        /\ Becomes(CloseSession(Factory, session_id))
        /\ last_call' = [fn |-> "close_session", known |-> Tracked(session_id)]
        /\ UNCHANGED <<with_pc, with_session>>
        /\ UNCHANGED outside_sessions

\* The loop of close_all_sessions over the ids
RECURSIVE CloseEach(_, _)
CloseEach(f, ids) ==
    IF ids = <<>> THEN f ELSE CloseEach(CloseSession(f, Head(ids)), Tail(ids))

\* BrowserFactory.close_all_sessions
close_all_sessions ==
    /\ Becomes(CloseEach(Factory, Keys(sessions)))
    /\ last_call' = [fn |-> "close_all_sessions", known |-> FALSE]
    /\ UNCHANGED <<with_pc, with_session>>
    /\ UNCHANGED outside_sessions

\* The loop of create_parallel_sessions over the browsers: fails says for
\* each browser which engine call raises; the exception is logged
RECURSIVE CreateEach(_, _, _)
CreateEach(f, names, fails) ==
    IF names = <<>> THEN f
    ELSE CreateEach(CreateSession(f, Head(names), "None", FALSE, FALSE, Head(fails)),
                    Tail(names), Tail(fails))

\* BrowserFactory.create_parallel_sessions() for the browsers of the matrix
create_parallel_sessions ==
    \E fails \in [1..2 -> CreateFailures \ {"tracing_start"}] :
        /\ session_counter + 2 <= MaxSessionCounter
        /\ Len(browsers) + 2 <= MaxLaunches
        /\ Becomes(CreateEach(Factory, <<"chromium", "firefox">>, fails))
        /\ last_call' = NoCall
        /\ UNCHANGED <<with_pc, with_session>>
        /\ UNCHANGED outside_sessions

\* with factory.session(browser_name) as session: up to the yield, or to
\* the exception of create_session
session ==
    /\ with_pc = "none"
    /\ \E browser_name \in RequestedBrowsers, fails \in CreateFailures \ {"tracing_start"} :
          /\ CanCreate(Factory, FALSE, FALSE)
          /\ Becomes(CreateSession(Factory, browser_name, "None", FALSE, FALSE, fails))
          /\ IF fails = "none"
             THEN /\ with_pc' = "block"
                  /\ with_session' = NewSession(Factory, browser_name, "None",
                                                FALSE, FALSE)
             ELSE UNCHANGED <<with_pc, with_session>>
          /\ last_call' = NoCall
    /\ UNCHANGED outside_sessions

\* Mutant of ClosesOnExit: a block that raises skips the close.
ClosesOnNormalExit(raising) == ~raising

\* try: yield session / finally: close_session: the close runs however the
\* block ends
ClosesOnExit(raising) == TRUE

\* The block of the with statement ends, normally or by raising; the
\* exception goes on after the finally clause
SessionExit ==
    /\ with_pc = "block"
    /\ \E raising \in BOOLEAN :
          /\ IF ClosesOnExit(raising)
             THEN Becomes(CloseSession(Factory, with_session.session_id))
             ELSE UNCHANGED session_state
          /\ with_pc' = IF raising THEN "raised" ELSE "exited"
    /\ last_call' = [fn |-> "close_session",
                     known |-> Tracked(with_session.session_id)]
    /\ UNCHANGED with_session
    /\ UNCHANGED outside_sessions

\* The code after the with statement, or the handler of its exception, goes on
WithConsume ==
    /\ with_pc \in {"exited", "raised"}
    /\ with_pc' = "none"
    /\ with_session' = NoSession
    /\ UNCHANGED <<session_state, last_call>>
    /\ UNCHANGED outside_sessions

SessionNext ==
    \/ create_session
    \/ close_session

SessionSpec == DefaultSettingsInit /\ [][SessionNext]_vars

LifecycleNext ==
    \/ create_session_as_configured
    \/ close_session
    \/ close_all_sessions
    \/ create_parallel_sessions
    \/ session
    \/ SessionExit
    \/ WithConsume

LifecycleSpec == DefaultSettingsInit /\ [][LifecycleNext]_vars

-----------------------------------------------------------------------------
(* add_items_to_cart (pages/product_page.py) *)

ProductUrls == {<<"/itm/1">>, <<"/itm/2">>}

\* What one add_to_cart call does: it returns True or False, or it raises
AddToCartOutcomes == {"True", "False", "raised"}

\* The sequences over S of length at most n
SeqsUpTo(S, n) == UNION {[1..k -> S] : k \in 0..n}

\* The two lists after an iteration on url in which only a returned True is
\* recorded
RecordItemTrueOnly(successful, failed, url, outcome_of_add) ==
    IF outcome_of_add = "True"
    THEN <<Append(successful, url), failed>>
    ELSE IF outcome_of_add = "False"
    THEN <<successful, Append(failed, url)>>
    ELSE <<successful, failed>>

\* The two lists after the loop body of add_items_to_cart ran on url
RecordItem(successful, failed, url, outcome_of_add) ==
    IF outcome_of_add = "True"
    THEN <<Append(successful, url), failed>>
    ELSE <<successful, Append(failed, url)>>

\* add_items_to_cart is called
add_items_to_cart ==
    /\ cart_pc = "idle"
    /\ \E us \in SeqsUpTo(ProductUrls, MaxUrls) : urls' = us
    /\ cart_pc' = "looping"
    /\ index' = 0
    /\ successful_urls' = <<>>
    /\ failed_urls' = <<>>
    /\ cart_log' = <<>>
    /\ UNCHANGED outside_cart

\* One iteration of the for loop
CartIteration ==
    /\ cart_pc = "looping"
    /\ index < Len(urls)
    /\ \E outcome_of_add \in AddToCartOutcomes :
        LET url == urls[index + 1]
            lists == RecordItem(successful_urls, failed_urls, url, outcome_of_add)
        IN  /\ successful_urls' = lists[1]
            /\ failed_urls' = lists[2]
            /\ cart_log' = Append(cart_log, [url |-> url, did |-> outcome_of_add])
    /\ index' = index + 1
    /\ UNCHANGED <<cart_pc, urls>>
    /\ UNCHANGED outside_cart

\* The loop is exhausted and the two lists are returned
CartReturn ==
    /\ cart_pc = "looping"
    /\ index = Len(urls)
    /\ cart_pc' = "returned"
    /\ UNCHANGED <<urls, index, successful_urls, failed_urls, cart_log>>
    /\ UNCHANGED outside_cart

\* The caller takes the two lists
CartConsume ==
    /\ cart_pc = "returned"
    /\ cart_pc' = "idle"
    /\ UNCHANGED <<urls, index, successful_urls, failed_urls, cart_log>>
    /\ UNCHANGED outside_cart

CartNext ==
    \/ add_items_to_cart
    \/ CartIteration
    \/ CartReturn
    \/ CartConsume

CartSpec == DefaultSettingsInit /\ [][CartNext]_vars

-----------------------------------------------------------------------------
(* search_items_by_name_under_price (pages/search_results_page.py) *)
(* Texts are sequences of characters here; prices are in cents.            *)

Digits == {"0", "1", "2", "3", "4", "5", "6", "7", "8", "9"}

DigitValue(c) ==
    CASE c = "0" -> 0 [] c = "1" -> 1 [] c = "2" -> 2 [] c = "3" -> 3
      [] c = "4" -> 4 [] c = "5" -> 5 [] c = "6" -> 6 [] c = "7" -> 7
      [] c = "8" -> 8 [] c = "9" -> 9

\* str.lower on one character (of the characters of PriceTexts and of the URLs)
LowerChar(c) == IF c = "F" THEN "f" ELSE IF c = "C" THEN "c" ELSE c

\* str.lower
Lower(text) == [k \in 1..Len(text) |-> LowerChar(text[k])]

\* str.strip
RECURSIVE Strip(_)
Strip(text) ==
    IF text = <<>> THEN text
    ELSE IF Head(text) = " " THEN Strip(Tail(text))
    ELSE IF text[Len(text)] = " " THEN Strip(SubSeq(text, 1, Len(text) - 1))
    ELSE text

\* The first index at which sub occurs in text, 0 when it does not occur
Find(text, sub) ==
    LET at == {k \in 1..(Len(text) - Len(sub) + 1) :
                    SubSeq(text, k, k + Len(sub) - 1) = sub}
    IN  IF at = {} THEN 0
        ELSE CHOOSE k \in at : \A j \in at : k <= j

\* text.split(sep)[0]
FirstPart(text, sep) ==
    IF Find(text, sep) = 0 THEN text
    ELSE SubSeq(text, 1, Find(text, sep) - 1)

\* The length of the longest prefix of text made of characters of S
RECURSIVE Run(_, _)
Run(text, S) ==
    IF text /= <<>> /\ Head(text) \in S THEN 1 + Run(Tail(text), S) ELSE 0

\* re.search(r'[\d,]+\.?\d*', text).group(), None when there is no match
PriceMatch(text) ==
    LET starts == {k \in 1..Len(text) : text[k] \in Digits \cup {","}}
    IN  IF starts = {} THEN None
        ELSE LET k    == CHOOSE i \in starts : \A j \in starts : i <= j
                 rest == SubSeq(text, k, Len(text))
                 n    == Run(rest, Digits \cup {","})
                 aft  == SubSeq(rest, n + 1, Len(rest))
                 dot  == IF aft /= <<>> /\ Head(aft) = "." THEN 1 ELSE 0
                 m    == Run(SubSeq(aft, dot + 1, Len(aft)), Digits)
             IN  SubSeq(rest, 1, n + dot + m)

\* The decimal value of a string of digits
RECURSIVE DecimalValue(_)
DecimalValue(ds) ==
    IF ds = <<>> THEN 0
    ELSE 10 * DecimalValue(SubSeq(ds, 1, Len(ds) - 1)) + DigitValue(ds[Len(ds)])

NotParsed == [parsed |-> FALSE]

\* float(price_str) in cents (the fraction is cut after two digits); the
\* ValueError of a string without a digit gives NotParsed
Float(price_str) ==
    LET n     == Run(price_str, Digits)
        whole == SubSeq(price_str, 1, n)
        frac  == SubSeq(price_str, n + 2, Len(price_str))
        two   == SubSeq(frac \o <<"0", "0">>, 1, 2)
    IN  IF whole = <<>> /\ frac = <<>> THEN NotParsed
        ELSE [parsed |-> TRUE,
              value |-> 100 * DecimalValue(whole) + DecimalValue(two)]

IsNotComma(c) == c /= ","

\* SearchResultsPage._parse_price
ParsePrice(price_text) ==
    LET stripped == Strip(price_text)
        cleaned  == IF Find(Lower(stripped), <<" ", "t", "o", " ">>) /= 0
                    THEN Strip(FirstPart(stripped, <<" ", "t", "o", " ">>))
                    ELSE stripped
        match    == PriceMatch(cleaned)
    IN  IF match = None THEN NotParsed
        ELSE Float(SelectSeq(match, IsNotComma))

\* Texts a price element may show
PriceTexts ==
    { <<"$", "5", ".", "0", "0">>,
      <<" ", "$", "8", ".", "0", "0", " ", "t", "o", " ", "$", "3", "0", ".", "0", "0">>,
      <<"$", "1", ",", "5", "0", "0", ".", "0", "0">>,
      <<"F", "r", "e", "e">>,
      <<"N", "/", "A", ",", " ", "a", "s", "k">> }

\* href attributes of item links; None when the link has no href
Hrefs == {<<"/itm/1">>, <<"/itm/2">>}

\* The result items a page may hold.  price is what is_visible says of the
\* price element ("raises": the engine raises), link what reading the href
\* does.
ResultItems ==
    [price : {"visible"}, price_text : PriceTexts, href : Hrefs \cup {None},
     link : {"found"}]
    \cup [price : {"hidden", "raises"}, price_text : {<<"$", "5", ".", "0", "0">>},
          href : {<<"/itm/1">>}, link : {"found"}]
    \cup [price : {"visible"}, price_text : {<<"$", "5", ".", "0", "0">>},
          href : {<<"/itm/1">>}, link : {"raises"}]

\* max_price arguments, in cents
MaxPrices == {500, 1000}

\* The break of the item loop that never fires
LimitReachedNever(page_urls, collected, lim) == FALSE

\* The break condition of the item loop
LimitReached(page_urls, collected, lim) == Len(page_urls) + Len(collected) >= lim

\* The price test that lets every parsed price pass
PriceAcceptedAny(price, maxp) == price.parsed

\* The item's price was parsed and is not above max_price
PriceAccepted(price, maxp) == price.parsed /\ ~(price.value > maxp)

InSeq(x, seq) == \E k \in 1..Len(seq) : seq[k] = x

\* The body of the item loop: TRUE when the item's href is appended
Collects(it, page_urls, collected, maxp) ==
    /\ it.price = "visible"
    /\ PriceAccepted(ParsePrice(it.price_text), maxp)
    /\ it.link = "found"
    /\ it.href /= None
    /\ ~InSeq(it.href, collected)
    /\ ~InSeq(it.href, page_urls)

\* search_items_by_name_under_price is called
search_items_by_name_under_price ==
    /\ search_pc = "idle"
    /\ max_price' \in MaxPrices
    /\ limit' \in 0..MaxLimit
    /\ collected_urls' = <<>>
    /\ new_urls' = <<>>
    /\ page_count' = 0
    /\ items_left' = 0
    /\ item' = NoItem
    /\ origin' = {}
    /\ search_outcome' = NoOutcome
    /\ search_pc' = "setup"
    /\ UNCHANGED outside_search

\* Navigation, price filter and screenshot before the first extraction
SearchSetup ==
    /\ search_pc = "setup"
    /\ search_pc' = "extract"
    /\ UNCHANGED <<max_price, limit, collected_urls, new_urls, page_count,
                   items_left, item, origin, search_outcome>>
    /\ UNCHANGED outside_search

\* _extract_items_from_current_page up to the item loop: all() yields the
\* items of the page, or raises
ExtractBegin ==
    /\ search_pc = "extract"
    /\ new_urls' = <<>>
    /\ IF limit - Len(collected_urls) <= 0
       THEN /\ search_pc' = "extracted"
            /\ UNCHANGED items_left
       ELSE \E all \in (0..MaxItems) \cup {-1} :
                IF all = -1
                THEN /\ search_pc' = "extracted"
                     /\ UNCHANGED items_left
                ELSE /\ search_pc' = "items"
                     /\ items_left' = all
    /\ UNCHANGED <<max_price, limit, collected_urls, page_count, item, origin,
                   search_outcome>>
    /\ UNCHANGED outside_search

\* One iteration of the item loop, the break included
ItemIteration ==
    /\ search_pc = "items"
    /\ items_left > 0
    /\ IF LimitReached(new_urls, collected_urls, limit)
       THEN /\ search_pc' = "extracted"
            /\ UNCHANGED <<new_urls, items_left, item, origin>>
       ELSE \E it \in ResultItems :
                /\ item' = it
                /\ items_left' = items_left - 1
                /\ IF Collects(it, new_urls, collected_urls, max_price)
                   THEN /\ new_urls' = Append(new_urls, it.href)
                        /\ origin' = origin \cup {<<it.href, it>>}
                   ELSE UNCHANGED <<new_urls, origin>>
                /\ UNCHANGED search_pc
    /\ UNCHANGED <<max_price, limit, collected_urls, page_count, search_outcome>>
    /\ UNCHANGED outside_search

\* The item loop is exhausted
ExtractReturn ==
    /\ search_pc = "items"
    /\ items_left = 0
    /\ search_pc' = "extracted"
    /\ UNCHANGED <<max_price, limit, collected_urls, new_urls, page_count,
                   items_left, item, origin, search_outcome>>
    /\ UNCHANGED outside_search

\* The caller takes the URLs of the page: by assignment for the first
\* page, by extend for the later ones
Collect ==
    /\ search_pc = "extracted"
    /\ IF page_count = 0
       THEN /\ collected_urls' = new_urls
            /\ page_count' = 1
       ELSE /\ collected_urls' = collected_urls \o new_urls
            /\ UNCHANGED page_count
    /\ search_pc' = "paging"
    /\ UNCHANGED <<max_price, limit, new_urls, items_left, item, origin,
                   search_outcome>>
    /\ UNCHANGED outside_search

\* The while condition and the move to the next page
NextPage ==
    /\ search_pc = "paging"
    /\ IF Len(collected_urls) < limit /\ page_count < MaxPages
       THEN \E nav \in {"no_next_page", "not_navigated", "navigated"} :
                IF nav = "navigated"
                THEN /\ page_count' = page_count + 1
                     /\ search_pc' = "extract"
                ELSE /\ search_pc' = "finishing"
                     /\ UNCHANGED page_count
       ELSE /\ search_pc' = "finishing"
            /\ UNCHANGED page_count
    /\ UNCHANGED <<max_price, limit, collected_urls, new_urls, items_left,
                   item, origin, search_outcome>>
    /\ UNCHANGED outside_search

\* Report attachment, screenshot and return
SearchReturn ==
    /\ search_pc = "finishing"
    /\ search_outcome' = [kind |-> "returned", value |-> collected_urls]
    /\ search_pc' = "returned"
    /\ UNCHANGED <<max_price, limit, collected_urls, new_urls, page_count,
                   items_left, item, origin>>
    /\ UNCHANGED outside_search

\* A step inside the try raises: the handler returns what was collected,
\* unless its own screenshot raises
SearchError ==
    /\ search_pc \in {"setup", "paging", "finishing"}
    /\ \E shot \in {"saved", "screenshot_failed"} :
          IF shot = "saved"
          THEN /\ search_outcome' = [kind |-> "returned", value |-> collected_urls]
               /\ search_pc' = "recovered"
          ELSE /\ search_outcome' = [kind |-> "raised"]
               /\ search_pc' = "raised"
    /\ UNCHANGED <<max_price, limit, collected_urls, new_urls, page_count,
                   items_left, item, origin>>
    /\ UNCHANGED outside_search

\* The caller takes the outcome
SearchConsume ==
    /\ search_pc \in {"returned", "recovered", "raised"}
    /\ search_pc' = "idle"
    /\ UNCHANGED <<max_price, limit, collected_urls, new_urls, page_count,
                   items_left, item, origin, search_outcome>>
    /\ UNCHANGED outside_search

SearchNext ==
    \/ search_items_by_name_under_price
    \/ SearchSetup
    \/ ExtractBegin
    \/ ItemIteration
    \/ ExtractReturn
    \/ Collect
    \/ NextPage
    \/ SearchReturn
    \/ SearchError
    \/ SearchConsume

SearchSpec == DefaultSettingsInit /\ [][SearchNext]_vars

-----------------------------------------------------------------------------
(* Binary floating point (Python float: IEEE 754 double, round half to     *)
(* even).  A positive float is [bits, exp]: bits is the significand, most  *)
(* significant bit first and equal to 1, exp the exponent of that bit;     *)
(* zero has no bits.  Amounts of money enter as cents.                     *)

\* Bits of the significand of a double
Precision == 53

\* Bits of a limb of the multiplication
LimbBits == 18

FloatZero == [bits |-> <<>>, exp |-> 0]

RECURSIVE Pow2(_)
Pow2(n) == IF n = 0 THEN 1 ELSE 2 * Pow2(n - 1)

\* The exponent e with 2^e <= num/den < 2^(e+1), for num > 0
RECURSIVE ExponentFrom(_, _, _)
ExponentFrom(num, den, e) ==
    IF num < den THEN ExponentFrom(2 * num, den, e - 1)
    ELSE IF num >= 2 * den THEN ExponentFrom(num, 2 * den, e + 1)
    ELSE e

\* The remainder left of r/den, r < den, after i bits below the point
RECURSIVE RemAfter(_, _, _)
RemAfter(r, den, i) ==
    IF i = 0 THEN r ELSE (2 * RemAfter(r, den, i - 1)) % den

\* The first n bits of the binary expansion of r/den below the point
Expand(r, den, n) ==
    [i \in 1..n |-> IF 2 * RemAfter(r, den, i - 1) >= den THEN 1 ELSE 0]

\* bits + 1 as a sequence of the same length, and the carry out of it
Increment(bits) ==
    LET zeros == {i \in 1..Len(bits) : bits[i] = 0}
    IN  IF zeros = {} THEN [bits |-> [i \in 1..Len(bits) |-> 0], carry |-> 1]
        ELSE LET z == CHOOSE i \in zeros : \A j \in zeros : j <= i
             IN  [bits |-> [i \in 1..Len(bits) |->
                               IF i < z THEN bits[i] ELSE IF i = z THEN 1 ELSE 0],
                  carry |-> 0]

\* Rounding to Precision bits, half to even: kept are the leading bits,
\* guard is the first bit dropped, sticky tells whether anything non-zero
\* follows it
RoundHalfEven(kept, guard, sticky, exp) ==
    IF guard = 1 /\ (sticky \/ kept[Len(kept)] = 1)
    THEN IF Increment(kept).carry = 1
         THEN [bits |-> [i \in 1..Len(kept) |-> IF i = 1 THEN 1 ELSE 0], exp |-> exp + 1]
         ELSE [bits |-> Increment(kept).bits, exp |-> exp]
    ELSE [bits |-> kept, exp |-> exp]

\* The float nearest to num/den: float("d.dd") for num cents and den = 100
ToFloat(num, den) ==
    IF num = 0 THEN FloatZero
    ELSE LET e == ExponentFrom(num, den, 0)
             n == IF e < 0 THEN num * Pow2(0 - e) ELSE num
             d == IF e > 0 THEN den * Pow2(e) ELSE den
         IN  RoundHalfEven(<<1>> \o Expand(n - d, d, Precision - 1),
                           Expand(n - d, d, Precision)[Precision],
                           RemAfter(n - d, d, Precision) /= 0, e)

\* The integer a bit sequence of at most LimbBits bits denotes
RECURSIVE BitsToInt(_)
BitsToInt(bits) ==
    IF bits = <<>> THEN 0
    ELSE 2 * BitsToInt(SubSeq(bits, 1, Len(bits) - 1)) + bits[Len(bits)]

\* The n lowest bits of an integer, most significant first
IntToBits(v, n) == [i \in 1..n |-> (v \div Pow2(n - i)) % 2]

\* The bits of an integer v >= 0, without leading zeros
RECURSIVE IntBits(_)
IntBits(v) == IF v = 0 THEN <<>> ELSE IntBits(v \div 2) \o <<v % 2>>

\* k * bits as a bit sequence, for an int k >= 1: the exact product before
\* rounding, computed limb by limb from the low end
RECURSIVE TimesLimbs(_, _, _)
TimesLimbs(bits, k, carry) ==
    IF bits = <<>> THEN IntBits(carry)
    ELSE LET n    == IF Len(bits) < LimbBits THEN Len(bits) ELSE LimbBits
             limb == BitsToInt(SubSeq(bits, Len(bits) - n + 1, Len(bits))) * k + carry
         IN  TimesLimbs(SubSeq(bits, 1, Len(bits) - n), k, limb \div Pow2(n))
                 \o IntToBits(limb, n)

TimesBits(bits, k) == TimesLimbs(bits, k, 0)

\* x * k for a float x and an int k >= 0: the exact product rounded once
FloatTimesInt(x, k) ==
    IF x = FloatZero \/ k = 0 THEN FloatZero
    ELSE LET prod == TimesBits(x.bits, k)
             e    == x.exp + (Len(prod) - Len(x.bits))
         IN  IF Len(prod) = Precision THEN [bits |-> prod, exp |-> e]
             ELSE RoundHalfEven(SubSeq(prod, 1, Precision), prod[Precision + 1],
                                \E i \in (Precision + 2)..Len(prod) : prod[i] = 1,
                                e)

\* a < b for bit sequences of equal length
BitsLess(a, b) ==
    \E i \in 1..Len(a) : a[i] < b[i] /\ \A j \in 1..(i - 1) : a[j] = b[j]

\* x <= y for floats that are not negative
FloatLeq(x, y) ==
    IF x = FloatZero THEN TRUE
    ELSE IF y = FloatZero THEN FALSE
    ELSE IF x.exp /= y.exp THEN x.exp < y.exp
    ELSE ~BitsLess(y.bits, x.bits)

-----------------------------------------------------------------------------
(* CartPage.assert_cart_total_not_exceeds *)

\* items_count arguments are 0..MaxItemsCount
MaxItemsCount == 3

\* budget_per_item arguments, in cents: 0.7 and 220
Budgets == {70, 22000}

\* Texts a total element of the cart page may show
CartTexts ==
    { <<"$", "0", ".", "0", "0">>,
      <<"$", "1", ".", "4", "0">>,
      <<"$", "2", ".", "1", "0">>,
      <<"$", "2", ".", "1", "1">>,
      <<"U", "S", " ", "$", "6", "6", "0", ".", "0", "0">>,
      <<"$", "6", "6", "0", ".", "0", "1">>,
      <<"N", "/", "A">>,
      <<"$", ",">> }

\* The cart pages a call may find.  page_load is what the waits and the
\* screenshot after the navigation do, empty_cart what the probe of the
\* empty-cart marker does; subtotal and total are the texts of the two
\* elements (None: not present), fallback the texts of the elements the
\* fallback selectors match, cart_items what get_cart_item_count reads.
CartViews ==
    [page_load : {"ok"}, empty_cart : {"present", "absent", "raises"},
     subtotal : CartTexts \cup {None}, total : {None}, fallback : {<<>>},
     cart_items : {0, 2}]
    \cup [page_load : {"ok"}, empty_cart : {"absent"},
          subtotal : {None, <<"N", "/", "A">>}, total : CartTexts \cup {None},
          fallback : {<<>>,
                      << <<"$", "0", ".", "0", "0">>, <<"$", "1", ".", "4", "0">> >>,
                      << <<"2", ".", "1", "0">> >>},
          cart_items : {2}]
    \cup [page_load : {"raises"}, empty_cart : {"absent"},
          subtotal : {<<"$", "1", ".", "4", "0">>}, total : {None},
          fallback : {<<>>}, cart_items : {2}]

\* CartPage._parse_price: the price in cents, NotParsed for None
CartParsePrice(price_text) ==
    LET match == PriceMatch(Strip(price_text))
    IN  IF match = None THEN NotParsed
        ELSE Float(SelectSeq(match, IsNotComma))

\* The float a parsed price is
AsFloat(price) == ToFloat(price.value, 100)

\* CartPage.is_cart_empty
is_cart_empty(view) == view.empty_cart = "present"

\* The fallback loop of get_cart_subtotal: the first price above zero among
\* the texts that hold a dollar sign
RECURSIVE FallbackPrice(_)
FallbackPrice(texts) ==
    IF texts = <<>> THEN NotParsed
    ELSE LET price == CartParsePrice(Head(texts))
         IN  IF Find(Head(texts), <<"$">>) /= 0 /\ price.parsed /\ price.value > 0
             THEN price
             ELSE FallbackPrice(Tail(texts))

\* CartPage.get_cart_subtotal
get_cart_subtotal(view) ==
    IF view.subtotal /= None /\ CartParsePrice(view.subtotal).parsed
    THEN CartParsePrice(view.subtotal)
    ELSE IF view.total /= None /\ CartParsePrice(view.total).parsed
    THEN CartParsePrice(view.total)
    ELSE FallbackPrice(view.fallback)

\* cart_total <= max_allowed in the arithmetic of the real numbers
WithinBudgetExact(cart_total, budget, count) == cart_total.value <= budget * count

\* cart_total <= max_allowed, max_allowed = budget_per_item * items_count
WithinBudget(cart_total, budget, count) ==
    FloatLeq(AsFloat(cart_total), FloatTimesInt(ToFloat(budget, 100), count))

\* The result dictionary (the reason of a total above the budget without
\* the amount it ends with)
AssertResult(view, budget, count) ==
    IF is_cart_empty(view)
    THEN [assertion_passed |-> FALSE, reason |-> "Cart is empty",
          expected_max_total |-> FloatTimesInt(ToFloat(budget, 100), count),
          actual_total |-> [parsed |-> TRUE, value |-> 0], items_count |-> 0]
    ELSE IF ~get_cart_subtotal(view).parsed
    THEN [assertion_passed |-> FALSE, reason |-> "Could not retrieve cart total",
          expected_max_total |-> FloatTimesInt(ToFloat(budget, 100), count),
          actual_total |-> NotParsed, items_count |-> view.cart_items]
    ELSE [assertion_passed |-> WithinBudget(get_cart_subtotal(view), budget, count),
          reason |-> IF WithinBudget(get_cart_subtotal(view), budget, count)
                     THEN "Cart total is within budget"
                     ELSE "Cart total exceeds budget",
          expected_max_total |-> FloatTimesInt(ToFloat(budget, 100), count),
          actual_total |-> get_cart_subtotal(view),
          items_count |-> view.cart_items]

\* The reads of the cart page, in the order the call makes them
AssertReads(view) ==
    IF is_cart_empty(view) THEN <<"is_cart_empty">>
    ELSE <<"is_cart_empty", "get_cart_subtotal", "get_cart_item_count">>

\* assert_cart_total_not_exceeds(budget_per_item, items_count), from the
\* call to its return or to the exception that leaves it
assert_cart_total_not_exceeds ==
    /\ assert_pc = "idle"
    /\ \E budget \in Budgets, count \in 0..MaxItemsCount, view \in CartViews :
          /\ budget_per_item' = budget
          /\ items_count' = count
          /\ cart_view' = view
          /\ IF view.page_load = "raises"
             THEN /\ assert_pc' = "raised"
                  /\ assert_calls' = <<>>
                  /\ assert_result' = NoAssertResult
             ELSE /\ assert_pc' = "returned"
                  /\ assert_calls' = AssertReads(view)
                  /\ assert_result' = AssertResult(view, budget, count)
    /\ UNCHANGED outside_assert

\* The caller takes the result or the exception, and leaves the cart page
AssertConsume ==
    /\ assert_pc \in {"returned", "raised"}
    /\ assert_pc' = "idle"
    /\ budget_per_item' = 0
    /\ items_count' = 0
    /\ cart_view' = NoCartView
    /\ assert_calls' = <<>>
    /\ assert_result' = NoAssertResult
    /\ UNCHANGED outside_assert

AssertNext ==
    \/ assert_cart_total_not_exceeds
    \/ AssertConsume

AssertSpec == DefaultSettingsInit /\ [][AssertNext]_vars

-----------------------------------------------------------------------------
(* ProductPage.add_to_cart *)

\* confirmation_texts of _verify_added_to_cart
ConfirmationTexts ==
    <<"Added to cart", "added to cart", "Added to your cart", "Item added">>

\* URLs the product page may be at after the click
CartUrl == <<"/", "C", "a", "r", "t">>
ItemUrl == <<"/", "i", "t", "m">>

\* The product pages a call may meet.  prepare is what the navigation, the
\* waits and the variant selection do, button what the probe of the Add to
\* Cart button does, click what the click does, wait and verify_wait what
\* the two wait_for_timeout calls do; confirmation is the confirmation
\* text the page shows ("none": none of them, "raises": the count raises),
\* screenshot and error_screenshot what capture_screenshot does in the try
\* block and in the handler.
ProductViews ==
    [prepare : {"ok"}, button : {"present"}, click : {"ok"},
     wait : {"ok", "raises"}, verify_wait : {"ok", "raises"},
     confirmation : {"none", "raises", "Added to cart", "Item added"},
     current_url : {CartUrl, ItemUrl}, screenshot : {"ok", "raises"},
     error_screenshot : {"ok", "raises"}]
    \cup [prepare : {"ok", "raises"}, button : {"present", "absent", "raises"},
          click : {"ok", "raises"}, wait : {"ok"}, verify_wait : {"ok"},
          confirmation : {"none"}, current_url : {ItemUrl},
          screenshot : {"ok", "raises"}, error_screenshot : {"ok", "raises"}]

\* The return statement _verify_added_to_cart leaves by
VerifiedBy(view) ==
    IF view.verify_wait = "raises" \/ view.confirmation = "raises" THEN "except"
    ELSE IF \E i \in 1..Len(ConfirmationTexts) : ConfirmationTexts[i] = view.confirmation
    THEN "confirmation"
    ELSE IF Find(Lower(view.current_url), <<"c", "a", "r", "t">>) /= 0 THEN "redirect"
    ELSE "assumed"

\* A verification that tells when it found nothing
VerifyStrict(view) ==
    IF VerifiedBy(view) \in {"confirmation", "redirect"} THEN "True" ELSE "False"

\* ProductPage._verify_added_to_cart
VerifyAddedToCart(view) ==
    CASE VerifiedBy(view) = "confirmation" -> "True"
      [] VerifiedBy(view) = "redirect" -> "True"
      [] VerifiedBy(view) = "assumed" -> "True"
      [] VerifiedBy(view) = "except" -> "True"

\* add_to_cart(url) is called
add_to_cart ==
    /\ add_pc = "idle"
    /\ \E view \in ProductViews : product_view' = view
    /\ add_pc' = "try"
    /\ UNCHANGED <<clicked, added, verified_by, add_raised, add_outcome>>
    /\ UNCHANGED outside_add

\* The navigation, the waits, the product info and _handle_variant_selection
AddPrepare ==
    /\ add_pc = "try"
    /\ IF product_view.prepare = "raises"
       THEN add_pc' = "except" /\ add_raised' = TRUE
       ELSE add_pc' = "click" /\ UNCHANGED add_raised
    /\ UNCHANGED <<product_view, clicked, added, verified_by, add_outcome>>
    /\ UNCHANGED outside_add

\* _click_add_to_cart, and the return of add_to_cart when it says False
ClickAddToCart ==
    /\ add_pc = "click"
    /\ IF product_view.button = "present" /\ product_view.click = "ok"
       THEN /\ clicked' = "True"
            /\ add_pc' = "wait"
            /\ UNCHANGED <<add_raised, add_outcome>>
       ELSE /\ clicked' = "False"
            /\ IF product_view.screenshot = "raises"
               THEN add_pc' = "except" /\ add_raised' = TRUE /\ UNCHANGED add_outcome
               ELSE add_pc' = "returned" /\ add_outcome' = "False" /\ UNCHANGED add_raised
    /\ UNCHANGED <<product_view, added, verified_by>>
    /\ UNCHANGED outside_add

\* page.wait_for_timeout(2000) of add_to_cart
AddWait ==
    /\ add_pc = "wait"
    /\ IF product_view.wait = "raises"
       THEN add_pc' = "except" /\ add_raised' = TRUE
       ELSE add_pc' = "verify" /\ UNCHANGED add_raised
    /\ UNCHANGED <<product_view, clicked, added, verified_by, add_outcome>>
    /\ UNCHANGED outside_add

\* success = self._verify_added_to_cart()
verify_added_to_cart ==
    /\ add_pc = "verify"
    /\ added' = VerifyAddedToCart(product_view)
    /\ verified_by' = VerifiedBy(product_view)
    /\ add_pc' = "verified"
    /\ UNCHANGED <<product_view, clicked, add_raised, add_outcome>>
    /\ UNCHANGED outside_add

\* The screenshot of a success, and `return success`
AddReturn ==
    /\ add_pc = "verified"
    /\ IF added = "True" /\ product_view.screenshot = "raises"
       THEN add_pc' = "except" /\ add_raised' = TRUE /\ UNCHANGED add_outcome
       ELSE add_pc' = "returned" /\ add_outcome' = added /\ UNCHANGED add_raised
    /\ UNCHANGED <<product_view, clicked, added, verified_by>>
    /\ UNCHANGED outside_add

\* except Exception: the screenshot of the error, and return False
AddExcept ==
    /\ add_pc = "except"
    /\ IF product_view.error_screenshot = "raises"
       THEN add_pc' = "raised" /\ add_outcome' = "raised"
       ELSE add_pc' = "returned" /\ add_outcome' = "False"
    /\ UNCHANGED <<product_view, clicked, added, verified_by, add_raised>>
    /\ UNCHANGED outside_add

\* The caller takes the result or the exception, and leaves the page
AddConsume ==
    /\ add_pc \in {"returned", "raised"}
    /\ add_pc' = "idle"
    /\ product_view' = NoProductView
    /\ clicked' = "None"
    /\ added' = "None"
    /\ verified_by' = "none"
    /\ add_raised' = FALSE
    /\ add_outcome' = "None"
    /\ UNCHANGED outside_add

AddNext ==
    \/ add_to_cart
    \/ AddPrepare
    \/ ClickAddToCart
    \/ AddWait
    \/ verify_added_to_cart
    \/ AddReturn
    \/ AddExcept
    \/ AddConsume

AddSpec == DefaultSettingsInit /\ [][AddNext]_vars

-----------------------------------------------------------------------------
(* RetryHandler, the retry decorator and RetryContext *)

\* max_retries arguments of the constructors are None and 0..MaxRetriesArg
MaxRetriesArg == 2

\* settings.RETRY.max_retries
DefaultMaxRetries == 3

MaxRetriesArgs == {NoArg} \cup [given : {TRUE}, value : 0..MaxRetriesArg]

\* How an invocation of the wrapped function may end: it returns, or it
\* raises an exception of the named class
FuncOutcomes == {"returns", "ValueError", "TypeError"}

\* Tuples of exception classes the handler is told to catch
CatchTuples == {{"Exception"}, {"ValueError"}}

\* except self.exceptions_to_catch
Caught(exc, catch) == "Exception" \in catch \/ exc \in catch

\* max_retries or settings.RETRY.max_retries
MaxRetriesOr(arg) ==
    IF arg.given /\ arg.value /= 0 THEN arg.value ELSE DefaultMaxRetries

\* Mutant of Attempts: the loop runs once more.
AttemptsOneMore(max_retries) == max_retries + 2

\* range(self.max_retries + 1): the number of iterations
Attempts(max_retries) == max_retries + 1

\* self._attempt >= self.handler.max_retries + 1
Exhausted(n, max_retries) == n >= max_retries + 1

\* RetryHandler.__init__, for the operation of the given mode
RetryHandlerInit(mode, catch) ==
    /\ retry_pc = "none"
    /\ \E arg \in MaxRetriesArgs :
          /\ max_retries_arg' = arg
          /\ handler_max_retries' = MaxRetriesOr(arg)
    /\ exceptions_to_catch' = catch
    /\ retry_mode' = mode
    /\ UNCHANGED <<retry_result, invocations, ctx_succeeded, ctx_last_error,
                   yielded, retry_outcome>>
    /\ UNCHANGED outside_retry

\* handler = RetryHandler(...); handler.execute_with_retry(func) is called
execute_with_retry ==
    /\ \E catch \in CatchTuples : RetryHandlerInit("execute", catch)
    /\ retry_pc' = "loop"
    /\ attempt' = 0
    /\ UNCHANGED ctx_attempt

\* @retry(...) def func; func() is called: the wrapper calls
\* execute_with_retry
retry ==
    /\ \E catch \in CatchTuples : RetryHandlerInit("decorator", catch)
    /\ retry_pc' = "loop"
    /\ attempt' = 0
    /\ UNCHANGED ctx_attempt

\* with RetryContext(...) as ctx: for attempt in ctx
RetryContextInit ==
    /\ RetryHandlerInit("context", {"Exception"})
    /\ retry_pc' = "iter"
    /\ ctx_attempt' = 0
    /\ UNCHANGED attempt

\* One iteration of the loop of execute_with_retry
Invoke ==
    /\ retry_pc = "loop"
    /\ attempt < Attempts(handler_max_retries)
    /\ \E out \in FuncOutcomes :
          /\ invocations' = Append(invocations, out)
          /\ IF out = "returns"
             THEN /\ retry_result' = [retry_result EXCEPT !.attempts = attempt + 1,
                                                          !.result = "value",
                                                          !.success = TRUE]
                  /\ retry_pc' = "result"
                  /\ UNCHANGED <<attempt, retry_outcome>>
             ELSE IF Caught(out, exceptions_to_catch)
             THEN /\ retry_result' =
                       [retry_result EXCEPT
                           !.attempts = attempt + 1,
                           !.last_error = [type |-> out, at |-> attempt + 1],
                           !.errors = Append(@, [attempt |-> attempt + 1,
                                                 error_type |-> out])]
                  /\ attempt' = attempt + 1
                  /\ UNCHANGED <<retry_pc, retry_outcome>>
             ELSE /\ retry_result' = [retry_result EXCEPT !.attempts = attempt + 1]
                  /\ retry_pc' = "raised"
                  /\ retry_outcome' = [kind |-> "raise",
                                       exc |-> [type |-> out, at |-> attempt + 1]]
                  /\ UNCHANGED attempt
    /\ UNCHANGED <<retry_mode, max_retries_arg, exceptions_to_catch,
                   handler_max_retries, ctx_attempt, ctx_succeeded, ctx_last_error,
                   yielded>>
    /\ UNCHANGED outside_retry

\* The loop of execute_with_retry is over: return result
AllAttemptsUsed ==
    /\ retry_pc = "loop"
    /\ attempt >= Attempts(handler_max_retries)
    /\ retry_pc' = "result"
    /\ UNCHANGED <<retry_mode, max_retries_arg, exceptions_to_catch,
                   handler_max_retries, attempt, retry_result, invocations,
                   ctx_attempt, ctx_succeeded, ctx_last_error, yielded,
                   retry_outcome>>
    /\ UNCHANGED outside_retry

\* execute_with_retry has returned its RetryResult: to the caller, or to the
\* wrapper of the decorator, which returns result.result or raises
\* result.last_error
ExecuteReturn ==
    /\ retry_pc = "result"
    /\ IF retry_mode = "decorator" /\ ~retry_result.success
       THEN /\ retry_pc' = "raised"
            /\ retry_outcome' = [kind |-> "raise", exc |-> retry_result.last_error]
       ELSE /\ retry_pc' = "done"
            /\ retry_outcome' =
                  [kind |-> "return",
                   value |-> IF retry_mode = "decorator" THEN retry_result.result
                             ELSE retry_result]
    /\ UNCHANGED <<retry_mode, max_retries_arg, exceptions_to_catch,
                   handler_max_retries, attempt, retry_result, invocations,
                   ctx_attempt, ctx_succeeded, ctx_last_error, yielded>>
    /\ UNCHANGED outside_retry

\* RetryContext.__next__
ContextNext ==
    /\ retry_pc = "iter"
    /\ IF ctx_succeeded
       THEN /\ retry_pc' = "stopped"
            /\ UNCHANGED <<ctx_attempt, yielded, retry_outcome>>
       ELSE IF Exhausted(ctx_attempt, handler_max_retries)
       THEN IF ctx_last_error /= NoError
            THEN /\ retry_pc' = "raised"
                 /\ retry_outcome' = [kind |-> "raise", exc |-> ctx_last_error]
                 /\ UNCHANGED <<ctx_attempt, yielded>>
            ELSE /\ retry_pc' = "stopped"
                 /\ UNCHANGED <<ctx_attempt, yielded, retry_outcome>>
       ELSE /\ yielded' = Append(yielded, ctx_attempt)
            /\ ctx_attempt' = ctx_attempt + 1
            /\ retry_pc' = "body"
            /\ UNCHANGED retry_outcome
    /\ UNCHANGED <<retry_mode, max_retries_arg, exceptions_to_catch,
                   handler_max_retries, attempt, retry_result, invocations,
                   ctx_succeeded, ctx_last_error>>
    /\ UNCHANGED outside_retry

\* RetryContext.success, called by the body of the loop
ContextSuccess ==
    /\ retry_pc = "body"
    /\ ctx_succeeded' = TRUE
    /\ UNCHANGED <<retry_pc, retry_mode, max_retries_arg, exceptions_to_catch,
                   handler_max_retries, attempt, retry_result, invocations,
                   ctx_attempt, ctx_last_error, yielded, retry_outcome>>
    /\ UNCHANGED outside_retry

\* RetryContext.failed(error), called by the body of the loop
ContextFailed ==
    /\ retry_pc = "body"
    /\ \E type \in {"ValueError", "TypeError"} :
          ctx_last_error' = [type |-> type, at |-> ctx_attempt]
    /\ UNCHANGED <<retry_pc, retry_mode, max_retries_arg, exceptions_to_catch,
                   handler_max_retries, attempt, retry_result, invocations,
                   ctx_attempt, ctx_succeeded, yielded, retry_outcome>>
    /\ UNCHANGED outside_retry

\* The body of the loop ends and the for statement asks for the next index
BodyEnd ==
    /\ retry_pc = "body"
    /\ retry_pc' = "iter"
    /\ UNCHANGED <<retry_mode, max_retries_arg, exceptions_to_catch,
                   handler_max_retries, attempt, retry_result, invocations,
                   ctx_attempt, ctx_succeeded, ctx_last_error, yielded,
                   retry_outcome>>
    /\ UNCHANGED outside_retry

\* The caller takes the outcome; handler, context and result are dropped
RetryConsume ==
    /\ retry_pc \in {"done", "raised", "stopped"}
    /\ retry_pc' = "none"
    /\ retry_mode' = "none"
    /\ max_retries_arg' = NoArg
    /\ exceptions_to_catch' = {}
    /\ handler_max_retries' = 0
    /\ attempt' = 0
    /\ retry_result' = RetryResult
    /\ invocations' = <<>>
    /\ ctx_attempt' = 0
    /\ ctx_succeeded' = FALSE
    /\ ctx_last_error' = NoError
    /\ yielded' = <<>>
    /\ retry_outcome' = NoOutcome
    /\ UNCHANGED outside_retry

RetryNext ==
    \/ execute_with_retry
    \/ retry
    \/ RetryContextInit
    \/ Invoke
    \/ AllAttemptsUsed
    \/ ExecuteReturn
    \/ ContextNext
    \/ ContextSuccess
    \/ ContextFailed
    \/ BodyEnd
    \/ RetryConsume

RetrySpec == DefaultSettingsInit /\ [][RetryNext]_vars

-----------------------------------------------------------------------------
(* Two threads probe one SmartLocator (core/base_page.py) *)

\* The overrides the threads probe with
ThreadTimeouts == {ShortProbeTimeout, 1000}

\* Two threads call is_element_present or is_element_visible on the same
\* locator, each with its own override
StartProbes ==
    /\ \A t \in Threads : thread_pc[t] = "idle"
    /\ \E o \in [Threads -> ThreadTimeouts] :
          /\ o[1] /= o[2]
          /\ thread_override' = o
    /\ thread_pc' = [t \in Threads |-> "called"]
    /\ timeout_before' = shared_timeout
    /\ UNCHANGED <<shared_timeout, thread_original, thread_attempts, thread_waits>>
    /\ UNCHANGED outside_thread

\* original_timeout = smart_locator.timeout
SaveOriginal(t) ==
    /\ thread_pc[t] = "called"
    /\ thread_original' = [thread_original EXCEPT ![t] = shared_timeout]
    /\ thread_pc' = [thread_pc EXCEPT ![t] = "saved"]
    /\ UNCHANGED <<shared_timeout, timeout_before, thread_override, thread_attempts,
                   thread_waits>>
    /\ UNCHANGED outside_thread

\* smart_locator.timeout = timeout
SetOverride(t) ==
    /\ thread_pc[t] = "saved"
    /\ shared_timeout' = thread_override[t]
    /\ thread_pc' = [thread_pc EXCEPT ![t] = "resolving"]
    /\ UNCHANGED <<timeout_before, thread_override, thread_original, thread_attempts,
                   thread_waits>>
    /\ UNCHANGED outside_thread

\* One iteration of the loop of resolve: wait_for with
\* timeout=smart_locator.timeout; the element is found, or the next
\* strategy is tried while one is left
ThreadWait(t) ==
    /\ thread_pc[t] = "resolving"
    /\ thread_waits' = Append(thread_waits, [thread |-> t, timeout |-> shared_timeout])
    /\ thread_attempts' = [thread_attempts EXCEPT ![t] = @ + 1]
    /\ \E found \in BOOLEAN :
          thread_pc' = [thread_pc EXCEPT ![t] =
                           IF found \/ thread_attempts[t] + 1 >= MaxLocators
                           THEN "resolved" ELSE "resolving"]
    /\ UNCHANGED <<shared_timeout, timeout_before, thread_override, thread_original>>
    /\ UNCHANGED outside_thread

\* smart_locator.timeout = original_timeout; return result.success
RestoreOriginal(t) ==
    /\ thread_pc[t] = "resolved"
    /\ shared_timeout' = thread_original[t]
    /\ thread_pc' = [thread_pc EXCEPT ![t] = "returned"]
    /\ UNCHANGED <<timeout_before, thread_override, thread_original, thread_attempts,
                   thread_waits>>
    /\ UNCHANGED outside_thread

\* Both callers take their results; the locator stays as the probes left it
ThreadsConsume ==
    /\ \A t \in Threads : thread_pc[t] = "returned"
    /\ thread_pc' = [t \in Threads |-> "idle"]
    /\ thread_override' = [t \in Threads |-> NoTimeout]
    /\ thread_original' = [t \in Threads |-> NoTimeout]
    /\ thread_attempts' = [t \in Threads |-> 0]
    /\ thread_waits' = <<>>
    /\ UNCHANGED <<shared_timeout, timeout_before>>
    /\ UNCHANGED outside_thread

ThreadNext ==
    \/ StartProbes
    \/ \E t \in Threads : SaveOriginal(t)
    \/ \E t \in Threads : SetOverride(t)
    \/ \E t \in Threads : ThreadWait(t)
    \/ \E t \in Threads : RestoreOriginal(t)
    \/ ThreadsConsume

ThreadSpec == DefaultSettingsInit /\ [][ThreadNext]_vars

TypeOK ==
    /\ pc \in {"idle", "pending", "trying", "failing", "resolved", "done", "raised"}
    /\ Len(locators) <= MaxLocators
    /\ timeout \in {LocatorTimeout, DefaultProbeTimeout, ShortProbeTimeout}
    /\ attempt_num \in 0..MaxLocators

-----------------------------------------------------------------------------
(* Vocabulary of the properties *)

NumLocators == Len(locators)

\* min(N, K)
Cap == IF NumLocators <= max_locator_retries THEN NumLocators ELSE max_locator_retries

TargetState == IF wait_for_visible THEN "visible" ELSE "attached"

\* resolve has returned its result (to the caller or to the wrapping operation)
ResolveReturned ==
    \/ pc \in {"resolved", "done"}
    \/ pc = "raised" /\ outcome.exc = "ElementNotFoundError"

\* The adapter yields a handle for strategy i
Adapts(i) == GetPlaywrightLocator(locators[i]).ok

\* Strategy i's wait completes on the current page
WaitCompletes(i) == Adapts(i) /\ WaitFor(page[i], TargetState) = "ok"

\* Strategy i's wait completes with a match count >= 1
Matches(i) == WaitCompletes(i) /\ Count(page[i]) >= 1

\* Strategy i's wait completes with a match count of 0
ZeroMatches(i) == WaitCompletes(i) /\ Count(page[i]) = 0

\* Number of calls of fn in the engine calls of the running call
NumCalls(fn) == Cardinality({j \in 1..Len(calls) : calls[j].fn = fn})

\* The fragment occurs in the message
Mentions(message, fragment) == \E j \in 1..Len(message) : message[j] = fragment

-----------------------------------------------------------------------------
(* Properties *)

\* C1: first success wins in list order.  When resolve has returned and
\* strategy i, within the first min(N, K), is the first whose wait completes
\* with a match count >= 1, the result is successful, its successful_locator
\* and handle are those of strategy i, total_attempts is i, and exactly i
\* strategies were handed to the adapter, whatever the later strategies would
\* have matched.
C1_FirstSuccessWins ==
    ResolveReturned =>
        \A i \in 1..Cap :
            (Matches(i) /\ \A j \in 1..(i - 1) : ~Matches(j)) =>
                /\ result.success
                /\ result.successful_locator = locators[i]
                /\ result.playwright_locator = GetPlaywrightLocator(locators[i]).value
                /\ result.total_attempts = i
                /\ Len(result.attempts) = i
                /\ result.attempts[i].success
                /\ NumCalls("_get_playwright_locator") = i
                /\ NumCalls("wait_for") <= i

\* C1 witness: resolve returned the first strategy although the second one
\* matches as well.
C1_Witness ==
    /\ pc = "resolved"
    /\ NumLocators = 2
    /\ max_locator_retries >= 2
    /\ Matches(1) /\ Matches(2)
    /\ result.success
    /\ result.total_attempts = 1
    /\ result.successful_locator = locators[1]

\* C2: attempt cap.  At every moment of a call at most min(N, K) strategies
\* have been attempted, they are the first ones in list order, and when
\* resolve has returned and none of the first min(N, K) strategies matches,
\* the result is a failure even if a strategy beyond the cap matches.
C2_AttemptCap ==
    pc /= "idle" =>
        /\ result.total_attempts <= Cap
        /\ Len(result.attempts) <= Cap
        /\ NumCalls("_get_playwright_locator") <= Cap
        /\ NumCalls("wait_for") <= Cap
        /\ attempt_num <= Cap
        /\ \A j \in 1..Len(result.attempts) :
              /\ result.attempts[j].attempt_number = j
              /\ result.attempts[j].locator_definition = locators[j]
        /\ (ResolveReturned /\ \A i \in 1..Cap : ~Matches(i)) => ~result.success

\* C2 witness: two strategies, a cap of one, only the second strategy
\* matches, and resolve returned a failure after one attempt.
C2_Witness ==
    /\ pc = "resolved"
    /\ NumLocators = 2
    /\ max_locator_retries = 1
    /\ ~Matches(1) /\ Matches(2)
    /\ ~result.success
    /\ result.total_attempts = 1
    /\ NumCalls("_get_playwright_locator") = 1

\* C3: total failure.  When resolve has returned on a non-empty catalog and
\* every one of the first min(N, K) strategies failed, the result has
\* success False, no handle, no successful_locator and
\* total_attempts = min(N, K).
C3_TotalFailure ==
    (ResolveReturned /\ NumLocators > 0 /\ \A i \in 1..Cap : ~Matches(i)) =>
        /\ result.success = FALSE
        /\ result.playwright_locator = None
        /\ result.successful_locator = None
        /\ result.total_attempts = Cap
        /\ \A j \in 1..Len(result.attempts) : ~result.attempts[j].success

\* C3 witness: two strategies were tried, one timed out and one raised
\* another exception, and resolve returned the failure.
C3_Witness ==
    /\ pc = "resolved"
    /\ NumLocators = 2
    /\ Cap = 2
    /\ page[1] = "absent" /\ Adapts(1)
    /\ page[2] = "invalid" /\ Adapts(2)
    /\ ~result.success
    /\ result.total_attempts = 2

\* C4: empty catalog.  A call on a locator with no strategies never enters
\* the loop or the failure path, makes no engine call at all, and resolve
\* returns success False, total_attempts 0 and no attempts; the only
\* exception such a call can end with is find_element's own.
C4_EmptyCatalog ==
    (pc /= "idle" /\ locators = <<>>) =>
        /\ pc \notin {"trying", "failing"}
        /\ calls = <<>>
        /\ result.success = FALSE
        /\ result.total_attempts = 0
        /\ result.attempts = <<>>
        /\ result.screenshot_path = None
        /\ pc = "raised" => op = "find_element"
        /\ op = "resolve" /\ pc = "done" => outcome = [kind |-> "return", value |-> result]

\* C4 witness: resolve was called on the empty catalog and returned.
C4_Witness ==
    /\ pc = "done"
    /\ op = "resolve"
    /\ locators = <<>>
    /\ outcome.kind = "return"
    /\ outcome.value.total_attempts = 0

\* C5: resolve never raises for a per-attempt failure.  A timeout, a zero
\* count and any exception of the adapter or of the wait are recorded with a
\* message and followed by the next strategy; a failed resolve has recorded
\* every strategy within the cap.  A call ends by an exception only in
\* find_element, with ElementNotFoundError after the whole sequence was
\* tried, or for a strategy whose kind has no .value, which is no failure of
\* the adapter or of the wait (the adapter was not called for it).
C5_NoRaiseForAttemptFailure ==
    pc /= "idle" =>
        /\ \A j \in 1..Len(result.attempts) :
              /\ ~result.attempts[j].success =>
                    result.attempts[j].error_message /= None
              /\ (~Adapts(j) \/ WaitFor(page[j], TargetState) = "Error") =>
                    /\ ~result.attempts[j].success
                    /\ result.attempts[j].error_message =
                          IF Adapts(j) THEN EngineMessage("Error")
                          ELSE GetPlaywrightLocator(locators[j]).message
              /\ (Adapts(j) /\ WaitFor(page[j], TargetState) = "TimeoutError") =>
                    /\ ~result.attempts[j].success
                    /\ result.attempts[j].error_message =
                          <<"Timeout: ">> \o EngineMessage("TimeoutError")
              /\ (~result.attempts[j].success /\ j < Cap /\ j = Len(result.attempts)) =>
                    \/ pc = "trying" /\ attempt_num = j + 1
                    \/ pc = "raised" /\ result.total_attempts = j + 1
        /\ (ResolveReturned /\ ~result.success /\ NumLocators > 0) =>
              Len(result.attempts) = Cap
        /\ pc = "raised" =>
              \/ /\ outcome.exc = "ElementNotFoundError"
                 /\ op = "find_element"
                 /\ ~result.success
                 /\ Len(result.attempts) = Cap
              \/ /\ outcome.exc = "AttributeError"
                 /\ ~HasValueAttr(locators[result.total_attempts].locator_type)
                 /\ NumCalls("_get_playwright_locator") = result.total_attempts - 1

\* C5 witness: the first strategy's wait raised an exception other than a
\* timeout, it was recorded, and the second strategy resolved the locator.
C5_Witness ==
    /\ pc = "resolved"
    /\ Len(result.attempts) = 2
    /\ Adapts(1) /\ page[1] = "invalid"
    /\ result.attempts[1].error_message = EngineMessage("Error")
    /\ result.attempts[2].success
    /\ result.success

\* C6: find_element.  When find_element ends after resolve returned, it
\* raised ElementNotFoundError with the locator's name and total_attempts in
\* the message if the result is unsuccessful, and otherwise returned the
\* handle of the winning strategy.
C6_FindElement ==
    (/\ op = "find_element"
     /\ pc \in {"done", "raised"}
     /\ ~(pc = "raised" /\ outcome.exc = "AttributeError")) =>
        IF ~result.success
        THEN /\ pc = "raised"
             /\ outcome.kind = "raise"
             /\ outcome.exc = "ElementNotFoundError"
             /\ \A j \in 1..Len(Name) : Mentions(outcome.message, Name[j])
             /\ Mentions(outcome.message, ToString(result.total_attempts))
        ELSE /\ pc = "done"
             /\ outcome.kind = "return"
             /\ outcome.value = GetPlaywrightLocator(result.successful_locator).value
             /\ outcome.value = result.playwright_locator
             /\ outcome.value /= None

\* C6 witness: find_element raised ElementNotFoundError after two failed
\* attempts.
C6_Witness ==
    /\ op = "find_element"
    /\ pc = "raised"
    /\ outcome.exc = "ElementNotFoundError"
    /\ result.total_attempts = 2
    /\ Mentions(outcome.message, "2")

\* C7: a probe that ends by an exception has restored the locator's timeout
\* to the value it had before the probe.
C7_RestoredAfterRaise ==
    (pc = "raised" /\ op \in Probes) => timeout = original_timeout

\* C8: the override is scoped to the probe.  Every wait made inside a probe
\* is bounded by the probe's own timeout argument; a probe that returned has
\* put back the timeout the locator had before it; and as long as no probe
\* has ended by an exception, the locator carries its constructed timeout
\* outside probes and every wait of resolve and find_element is bounded by it.
C8_OverrideScoped ==
    /\ op \in Probes =>
          /\ \A j \in 1..Len(calls) :
                calls[j].fn = "wait_for" => calls[j].arg[2] = probe_timeout
          /\ pc = "done" => timeout = original_timeout
    /\ (~probe_raised /\ op \notin Probes) =>
          /\ timeout = LocatorTimeout
          /\ \A j \in 1..Len(calls) :
                calls[j].fn = "wait_for" => calls[j].arg[2] = LocatorTimeout

\* C8 witness: a probe with a short override waited with it and returned,
\* and the locator has its constructed timeout again.
C8_Witness ==
    /\ op \in Probes
    /\ pc = "done"
    /\ probe_timeout = ShortProbeTimeout
    /\ NumCalls("wait_for") >= 1
    /\ \A j \in 1..Len(calls) :
          calls[j].fn = "wait_for" => calls[j].arg[2] = ShortProbeTimeout
    /\ timeout = LocatorTimeout

\* C9: a strategy whose kind is outside the closed set fails fast: it is not
\* recorded as a failed attempt and no strategy after it is tried.
C9_UnknownKindFailsFast ==
    pc /= "idle" =>
        \A i \in 1..NumLocators :
            locators[i].locator_type \notin LocatorType =>
                /\ Len(result.attempts) < i
                /\ attempt_num <= i

\* C10: zero matches after a completed wait is a failed attempt with the
\* message "No elements found", followed by the next strategy, or by total
\* failure when it was the last one within the cap.
C10_ZeroMatches ==
    pc /= "idle" =>
        \A j \in 1..Len(result.attempts) :
            ZeroMatches(j) =>
                /\ result.attempts[j].success = FALSE
                /\ result.attempts[j].error_message = <<"No elements found">>
                /\ j < Cap =>
                      \/ Len(result.attempts) > j
                      \/ pc = "trying" /\ attempt_num = j + 1
                      \/ pc = "raised" /\ result.total_attempts = j + 1
                /\ j = Cap =>
                      /\ ~result.success
                      /\ result.total_attempts = Cap
                      /\ pc = "failing" \/ ResolveReturned

\* C10 witness: the first strategy's wait completed on an element that was
\* gone when counted, and the second strategy resolved the locator.
C10_Witness ==
    /\ pc = "resolved"
    /\ page[1] = "stale" /\ Adapts(1)
    /\ Len(result.attempts) = 2
    /\ result.attempts[1].error_message = <<"No elements found">>
    /\ result.attempts[2].success
    /\ result.total_attempts = 2

\* Every strategy of the catalog has an Enum member as its kind
KindsHaveValue == \A i \in 1..NumLocators : HasValueAttr(locators[i].locator_type)

\* The timeout the locator carries while the running call resolves
TimeoutInForce == IF op \in Probes THEN probe_timeout ELSE timeout

RECURSIVE SumWaitBounds(_)
\* Sum of the timeouts passed to the waits of a sequence of engine calls
SumWaitBounds(cs) ==
    IF cs = <<>> THEN 0
    ELSE (IF Head(cs).fn = "wait_for" THEN Head(cs).arg[2] ELSE 0)
            + SumWaitBounds(Tail(cs))

\* The first strategy within the cap that matches on the current page, or 0
FirstMatch ==
    IF \E i \in 1..Cap : Matches(i)
    THEN CHOOSE i \in 1..Cap : Matches(i) /\ \A j \in 1..(i - 1) : ~Matches(j)
    ELSE 0

\* C11: every result returned by resolve is well formed: it has a handle
\* exactly when success is True, and a winning strategy exactly when success
\* is True.
C11_WellFormedResult ==
    ResolveReturned =>
        /\ (result.playwright_locator /= None) <=> result.success
        /\ (result.successful_locator /= None) <=> result.success

\* C11 witness: resolve returned a successful result that carries the handle
\* and the strategy of its second attempt.
C11_Witness ==
    /\ pc = "resolved"
    /\ result.success
    /\ result.total_attempts = 2
    /\ result.playwright_locator = GetPlaywrightLocator(locators[2]).value
    /\ result.successful_locator = locators[2]

\* C12: failure artifact.  A screenshot is taken, and screenshot_path can be
\* set, only past the loop of a call on a non-empty catalog in which every
\* strategy within the cap failed, and only if screenshot_on_failure is
\* enabled; when the capture fails, resolve has returned the failed result
\* without a path, and no exception of the capture ends the call.
C12_FailureArtifact ==
    pc /= "idle" =>
        /\ (result.screenshot_path /= None \/ NumCalls("screenshot") > 0) =>
              /\ screenshot_on_failure
              /\ ResolveReturned
              /\ ~result.success
              /\ locators /= <<>>
              /\ Len(result.attempts) = Cap
              /\ \A j \in 1..Len(result.attempts) : ~result.attempts[j].success
              /\ NumCalls("screenshot") = 1
        /\ (ResolveReturned /\ ~result.success /\ locators /= <<>>
              /\ ~screenshot_on_failure) => result.screenshot_path = None
        /\ pc = "raised" => outcome.exc \in {"ElementNotFoundError", "AttributeError"}

\* C12 witness: every strategy failed, capture is enabled, and resolve
\* returned the failed result with the path of the screenshot.
C12_Witness ==
    /\ pc = "resolved"
    /\ screenshot_on_failure
    /\ ~result.success
    /\ result.total_attempts = 2
    /\ result.screenshot_path = ScreenshotPath(Name, screenshot_counter)

\* The shape of the trace of a returned result
ReturnedTraceShape ==
    ResolveReturned =>
        LET n == Len(result.attempts)
        IN  /\ n = result.total_attempts
            /\ \A j \in 1..n :
                  /\ result.attempts[j].attempt_number = j
                  /\ result.attempts[j].locator_definition = locators[j]
                  /\ j < n => ~result.attempts[j].success
                  /\ ~result.attempts[j].success =>
                        result.attempts[j].error_message /= None
                  /\ result.attempts[j].success =>
                        result.attempts[j].error_message = None
            /\ result.success <=> (n > 0 /\ result.attempts[n].success)

\* C13 witness: a returned trace of two entries, a recorded failure followed
\* by the success.
C13_Witness ==
    /\ pc = "resolved"
    /\ Len(result.attempts) = 2
    /\ ~result.attempts[1].success
    /\ result.attempts[1].error_message /= None
    /\ result.attempts[2].success
    /\ result.success

\* A step of a running call leaves the trace alone or adds one entry at
\* its end.
TraceAppendStep ==
    (pc /= "idle" /\ pc' /= "idle") =>
        \/ result'.attempts = result.attempts
        \/ /\ Len(result'.attempts) = Len(result.attempts) + 1
           /\ SubSeq(result'.attempts, 1, Len(result.attempts)) = result.attempts

\* C13: the attempt trace is append-only with one entry per strategy tried.
\* In every returned result len(attempts) equals total_attempts; entry j has
\* attempt_number j and the j-th strategy; every entry but the last is a
\* failure with an error message, as is a failed last entry; the last entry
\* is a success exactly when the result is; and no step of a running call
\* removes or rewrites an entry.
C13_AttemptTrace == []ReturnedTraceShape /\ [][TraceAppendStep]_vars

\* A step of resolve moves forward: from pending to the first strategy (or
\* straight to an end), from strategy i to strategy i + 1 or to an end, and
\* from an end never back into the loop.
ForwardStep ==
    /\ pc = "pending" =>
          /\ pc' \in {"pending", "trying", "failing", "resolved"}
          /\ pc' = "trying" => attempt_num' = 1
    /\ pc = "trying" =>
          /\ pc' \in {"trying", "failing", "resolved", "raised"}
          /\ pc' = "trying" => attempt_num' \in {attempt_num, attempt_num + 1}
          /\ (pc' = "trying" /\ attempt_num' = attempt_num) => UNCHANGED vars
          /\ attempt_num' <= Cap
    /\ pc = "failing" => pc' \in {"failing", "resolved"}
    /\ pc \in {"resolved", "done", "raised"} => pc' \notin {"pending", "trying", "failing"}
    /\ pc' = "resolved" => result'.total_attempts <= Cap

\* C14: per resolve call the state machine only moves forward, from pending
\* through trying(1), trying(2), ... without revisiting an index, and a call
\* on a catalog whose kinds are Enum members always ends, succeeded or
\* failed, with resolve returning after at most min(N, K) attempts.
C14_ForwardAndTerminates ==
    /\ [][ForwardStep]_vars
    /\ (pc = "pending" /\ KindsHaveValue) ~> (pc = "resolved")

\* C14 witness: a call went through trying(1) and trying(2) and ended failed.
C14_Witness ==
    /\ pc = "resolved"
    /\ Cap = 2
    /\ ~result.success
    /\ Len(result.attempts) = 2
    /\ attempt_num = 2

\* C15: no caching across calls.  Every call starts with a fresh result and
\* no engine call, enters the loop at the first strategy, and hands the first
\* strategy to the adapter first; what resolve returns is decided by the
\* catalog and the page of the moment alone: it succeeds exactly when some
\* strategy within the cap matches the current page, with the first such
\* strategy as the winner and one adapter call per attempt made in this call.
C15_NoCaching ==
    /\ pc = "pending" =>
          /\ result = LocatorResolutionResult(Name)
          /\ calls = <<>>
    /\ pc = "trying" => attempt_num = Len(result.attempts) + 1
    /\ (pc /= "idle" /\ NumCalls("_get_playwright_locator") > 0) =>
          calls[1] = [fn |-> "_get_playwright_locator", arg |-> locators[1]]
    /\ ResolveReturned =>
          /\ result.success <=> FirstMatch /= 0
          /\ result.success =>
                /\ result.successful_locator = locators[FirstMatch]
                /\ result.total_attempts = FirstMatch
          /\ NumCalls("_get_playwright_locator") = result.total_attempts

\* C15 witness: an earlier call on this locator failed on every strategy (it
\* took a failure screenshot), the page changed, and the present call
\* resolved the locator with its first strategy.
C15_Witness ==
    /\ pc = "resolved"
    /\ screenshot_counter >= 1
    /\ NumCalls("screenshot") = 0
    /\ result.success
    /\ result.total_attempts = 1
    /\ result.successful_locator = locators[1]

\* C17: latency bound.  Every wait of a call is bounded by the timeout the
\* locator carries during the call, and the bounds of all the waits of one
\* call add up to at most min(N, K) times that timeout; when every attempted
\* strategy has timed out, the sum is exactly min(N, K) times the timeout.
C17_LatencyBound ==
    pc /= "idle" =>
        /\ \A j \in 1..Len(calls) :
              calls[j].fn = "wait_for" => calls[j].arg[2] = TimeoutInForce
        /\ SumWaitBounds(calls) <= Cap * TimeoutInForce
        /\ (/\ ResolveReturned
            /\ \A i \in 1..Cap :
                  Adapts(i) /\ WaitFor(page[i], TargetState) = "TimeoutError") =>
              SumWaitBounds(calls) = Cap * TimeoutInForce

\* C17 witness: two strategies were tried under a probe's short timeout,
\* both timed out, and the waits add up to twice that timeout.
C17_Witness ==
    /\ pc = "resolved"
    /\ op \in Probes
    /\ probe_timeout = ShortProbeTimeout
    /\ Cap = 2
    /\ \A i \in 1..2 : Adapts(i) /\ WaitFor(page[i], TargetState) = "TimeoutError"
    /\ SumWaitBounds(calls) = 2 * ShortProbeTimeout

-----------------------------------------------------------------------------
(* Browser sessions *)

\* C16: sessions share no mutable state.  Whatever sessions were created or
\* closed before, the configuration the next session of any browser is
\* created with is the one the settings define, and every live session
\* still observes, in its browser_config, the headless mode it was
\* launched with.
C16_SessionsIsolated ==
    /\ \A b \in RequestedBrowsers :
          BROWSER_MATRIX[get_browser_config(b)] = DefaultMatrix[get_browser_config(b)]
    /\ \A k \in 1..Len(sessions) :
          BROWSER_MATRIX[sessions[k].browser_config].headless = sessions[k].launch_headless

\* A session created without a headless override runs headed, although the
\* settings define its browser as headless: an earlier create_session with
\* headless=False changed the shared BrowserConfig.
C16_OverrideLeaks ==
    \E k \in 1..Len(sessions) :
        /\ sessions[k].headless_arg = "None"
        /\ ~sessions[k].launch_headless
        /\ DefaultMatrix[sessions[k].browser_config].headless

-----------------------------------------------------------------------------
(* The session registry *)

\* The browsers of the sessions the registry holds
Registered == {sessions[k].browser : k \in 1..Len(sessions)}

\* The registry holds the sessions created and not yet closed, under ids
\* that differ, their browsers open and those of the closed sessions closed
RegistryExact ==
    /\ Registered = created \ closed
    /\ \A j, k \in 1..Len(sessions) :
          sessions[j].session_id = sessions[k].session_id => j = k
    /\ \A b \in Registered : browsers[b] = "open"
    /\ \A b \in closed : browsers[b] = "closed"
    /\ last_call.fn = "close_all_sessions" => sessions = <<>>

\* The step is a close_session call
IsCloseSession ==
    /\ last_call'.fn = "close_session"
    /\ ~(with_pc \in {"exited", "raised"} /\ with_pc' = "none")

\* close_session removes and closes the session it names and no other; on
\* an id the registry does not hold it changes nothing
ClosesTheNamed ==
    IsCloseSession =>
        IF last_call'.known
        THEN /\ Len(sessions') = Len(sessions) - 1
             /\ \E k \in 1..Len(sessions) :
                   /\ sessions' = SubSeq(sessions, 1, k - 1)
                                    \o SubSeq(sessions, k + 1, Len(sessions))
                   /\ closed' = closed \cup {sessions[k].browser}
                   /\ browsers' = [browsers EXCEPT ![sessions[k].browser] = "closed"]
        ELSE UNCHANGED session_state

\* C27: after any sequence of create_session, close_session and
\* close_all_sessions calls the registry holds exactly the sessions created
\* and not yet closed: the ids handed out differ, so no create overwrites a
\* live entry; close_session removes and closes exactly the named session;
\* closing an unknown or already closed id changes nothing;
\* close_all_sessions leaves the registry empty.
C27_RegistryExact == []RegistryExact /\ [][ClosesTheNamed]_vars

\* One session was closed by its id while another stays registered
C27_Witness ==
    /\ last_call = [fn |-> "close_session", known |-> TRUE]
    /\ sessions /= <<>>
    /\ closed /= {}

\* C28: the `session` context manager closes and deregisters the session it
\* created when the block exits, normally or by raising; after the block
\* the id is not in the registry, and the exception of the block goes on.
C28_ContextManagerCloses ==
    with_pc \in {"exited", "raised"} =>
        /\ ~Tracked(with_session.session_id)
        /\ with_session.browser \notin Registered
        /\ browsers[with_session.browser] = "closed"

\* The block raised and its session is closed
C28_Witness ==
    /\ with_pc = "raised"
    /\ with_session.browser \in closed
    /\ last_call = [fn |-> "close_session", known |-> TRUE]

\* C29: no launched browser is left untracked: every browser create_session
\* started is in the registry or was closed before create_session raised,
\* also when create_parallel_sessions swallows the failure.
C29_NoUntrackedBrowser ==
    \A b \in 1..Len(browsers) : browsers[b] = "open" => b \in Registered

-----------------------------------------------------------------------------
(* add_items_to_cart *)

\* The URLs of the entries of the log that satisfy Test, in order
LoggedUrls(log, Test(_)) ==
    LET kept == SelectSeq(log, Test)
    IN  [k \in 1..Len(kept) |-> kept[k].url]

AddedToCart(entry) == entry.did = "True"

NotAddedToCart(entry) == entry.did /= "True"

\* C18: add_items_to_cart calls add_to_cart once per URL of its input, in
\* input order; successful_urls holds the URLs whose call returned True and
\* failed_urls those whose call returned False or raised, both in input
\* order; when the lists are returned every URL has been processed, so
\* len(successful) + len(failed) = len(urls).
C18_EveryUrlOnce ==
    cart_pc /= "idle" =>
        /\ Len(cart_log) = index
        /\ index <= Len(urls)
        /\ \A k \in 1..index : cart_log[k].url = urls[k]
        /\ successful_urls = LoggedUrls(cart_log, AddedToCart)
        /\ failed_urls = LoggedUrls(cart_log, NotAddedToCart)
        /\ Len(successful_urls) + Len(failed_urls) = index
        /\ cart_pc = "returned" => index = Len(urls)

\* C18 witness: add_to_cart raised on the first of three URLs, returned True
\* on the second and False on the third, and the lists were returned.
C18_Witness ==
    /\ cart_pc = "returned"
    /\ Len(urls) = 3
    /\ cart_log[1].did = "raised"
    /\ cart_log[2].did = "True"
    /\ cart_log[3].did = "False"
    /\ successful_urls = <<urls[2]>>
    /\ failed_urls = <<urls[1], urls[3]>>

-----------------------------------------------------------------------------
(* search_items_by_name_under_price *)

\* The call handed a list of URLs back, at its end or from its handler
SearchReturned == search_pc \in {"returned", "recovered"}

\* C19: search_items_by_name_under_price returns at most `limit` URLs (for
\* limit >= 0): the collected URLs, with those of the page being read, never
\* exceed limit, whatever the pages hold and however many pages are
\* visited, and so does the list returned at the end or by the handler.
C19_AtMostLimit ==
    /\ Len(collected_urls) <= limit
    /\ search_pc \in {"items", "extracted"} =>
          Len(collected_urls) + Len(new_urls) <= limit
    /\ SearchReturned => Len(search_outcome.value) <= limit

\* C19 witness: the handler returned early after an exception on the
\* second page, with exactly limit = 2 URLs, the item loop having stopped
\* with an item of the page left unread.
C19_Witness ==
    /\ search_pc = "recovered"
    /\ limit = 2
    /\ page_count = 2
    /\ items_left > 0
    /\ Len(search_outcome.value) = 2

\* The item is one the loop body must not return
NotReturnable(it) ==
    \/ it.price /= "visible"
    \/ ~ParsePrice(it.price_text).parsed
    \/ ParsePrice(it.price_text).value > max_price
    \/ it.link /= "found"

\* Every URL of the list was read from a result item whose price is
\* visible, parses, and is at most max_price
FromCheapItems(list) ==
    \A k \in 1..Len(list) :
        \E o \in origin :
            /\ o[1] = list[k]
            /\ o[2].href = list[k]
            /\ ~NotReturnable(o[2])

PricesWithinMax ==
    /\ FromCheapItems(collected_urls)
    /\ search_pc \in {"items", "extracted"} => FromCheapItems(new_urls)
    /\ SearchReturned => FromCheapItems(search_outcome.value)

\* An iteration on an item that is too expensive, not visible, unparseable
\* or raising leaves the URLs as they were and goes on with the next item
SkipsOnlyThatItem ==
    (search_pc = "items" /\ items_left' = items_left - 1 /\ NotReturnable(item')) =>
        /\ new_urls' = new_urls
        /\ collected_urls' = collected_urls
        /\ search_pc' = "items"

\* C20: every URL returned by search_items_by_name_under_price belongs to a
\* result item whose parsed price is <= max_price; an item whose price is
\* above max_price, not visible or unparseable, or whose processing raises,
\* adds nothing, and the loop goes on with the next item.
C20_UnderMaxPrice == []PricesWithinMax /\ [][SkipsOnlyThatItem]_vars

\* C20 witness: with max_price 10.00 the call returned the URL of an item
\* priced "$8.00 to $30.00", read on the first page before an item whose
\* price element raised.
C20_Witness ==
    /\ search_pc = "returned"
    /\ max_price = 1000
    /\ page_count = 1
    /\ items_left = 0
    /\ item.price = "raises"
    /\ Len(search_outcome.value) = 1
    /\ \E o \in origin :
          /\ o[1] = search_outcome.value[1]
          /\ ParsePrice(o[2].price_text) = [parsed |-> TRUE, value |-> 800]

-----------------------------------------------------------------------------
(* The wait target of the probes *)

\* The wait target a probe resolves with
ProbeTarget(probe) == IF probe = "is_element_present" THEN "attached" ELSE "visible"

\* Every strategy of the catalog denotes an element that is attached to the
\* page but not visible, and resolve tries at least one strategy
AttachedButHidden ==
    /\ Len(locators) >= 1
    /\ max_locator_retries >= 1
    /\ \A i \in 1..Len(locators) : page[i] = "hidden"

\* C23: is_element_present resolves with target state 'attached' and
\* is_element_visible with target state 'visible'; for an element that is
\* attached but not visible is_element_present returns True and
\* is_element_visible returns False; both return only the boolean success
\* flag of the resolution.
C23_ProbeTargets ==
    op \in Probes =>
        /\ \A k \in 1..Len(calls) :
              calls[k].fn = "wait_for" => calls[k].arg[1] = ProbeTarget(op)
        /\ pc = "done" =>
              /\ outcome = [kind |-> "return", value |-> result.success]
              /\ result.success \in BOOLEAN
              /\ AttachedButHidden => (outcome.value <=> op = "is_element_present")

\* is_element_present returned True for an element attached but hidden
C23_Witness ==
    /\ pc = "done"
    /\ op = "is_element_present"
    /\ AttachedButHidden
    /\ outcome = [kind |-> "return", value |-> TRUE]

-----------------------------------------------------------------------------
(* assert_cart_total_not_exceeds *)

AssertReturned == assert_pc = "returned"

\* C21: assert_cart_total_not_exceeds returns passed True exactly when the
\* cart is not empty, the total was read and total <= budget_per_item *
\* items_count, a total equal to the product included; the empty check comes
\* before the read of the total, and an empty cart is reported with the
\* reason "Cart is empty" and an actual_total of 0.
C21_PassedIffWithinBudget ==
    AssertReturned =>
        /\ assert_result.assertion_passed
              <=> /\ ~is_cart_empty(cart_view)
                  /\ get_cart_subtotal(cart_view).parsed
                  /\ WithinBudgetExact(get_cart_subtotal(cart_view),
                                       budget_per_item, items_count)
        /\ assert_calls[1] = "is_cart_empty"
        /\ is_cart_empty(cart_view) =>
              /\ assert_calls = <<"is_cart_empty">>
              /\ assert_result.reason = "Cart is empty"
              /\ assert_result.actual_total = [parsed |-> TRUE, value |-> 0]

-----------------------------------------------------------------------------
(* add_to_cart *)

-----------------------------------------------------------------------------
(* The retry helpers *)

\* The invocations that raised
Raising == {k \in 1..Len(invocations) : invocations[k] /= "returns"}

\* C24: execute_with_retry invokes the function at most max_retries + 1
\* times and stops at the first invocation that returns; its RetryResult has
\* attempts equal to the number of invocations, len(errors) equal to the
\* number of invocations that raised a caught exception, last_error the most
\* recent of them, and success True exactly when some invocation returned.
C24_RetryResult ==
    retry_mode \in {"execute", "decorator"} =>
        /\ Len(invocations) <= handler_max_retries + 1
        /\ \A k \in 1..(Len(invocations) - 1) : invocations[k] /= "returns"
        /\ retry_pc = "result" =>
              /\ retry_result.attempts = Len(invocations)
              /\ Len(retry_result.errors) = Cardinality(Raising)
              /\ \A k \in Raising :
                    (\A j \in Raising : j <= k) =>
                        retry_result.last_error = [type |-> invocations[k], at |-> k]
              /\ Raising = {} => retry_result.last_error = NoError
              /\ retry_result.success
                    <=> \E k \in 1..Len(invocations) : invocations[k] = "returns"

\* execute_with_retry returned a success after a failed invocation
C24_Witness ==
    /\ retry_pc = "result"
    /\ retry_result.success
    /\ Len(retry_result.errors) >= 1

\* C25: for every n >= 0, a RetryHandler, retry decorator or RetryContext
\* constructed with max_retries = n makes at most n + 1 attempts per
\* operation; max_retries = 0 means exactly one attempt and no retry.
C25_AtMostNPlusOneAttempts ==
    max_retries_arg.given =>
        /\ Len(invocations) <= max_retries_arg.value + 1
        /\ Len(yielded) <= max_retries_arg.value + 1

\* The max_retries a context is constructed with
ContextMaxRetries ==
    IF max_retries_arg.given THEN max_retries_arg.value ELSE DefaultMaxRetries

\* The indices come in order 0, 1, 2, ... and are at most max_retries + 1
YieldsInOrder ==
    /\ yielded = [i \in 1..Len(yielded) |-> i - 1]
    /\ Len(yielded) <= ContextMaxRetries + 1

\* A step of a context that has succeeded yields no index
NoIndexAfterSuccess == (ctx_succeeded /\ ctx_succeeded') => yielded' = yielded

\* The iteration of a context that has not succeeded has ended silently
\* with every attempt used up after a failed() call
EndedSilentlyAfterFailure ==
    /\ retry_mode = "context"
    /\ retry_pc = "stopped"
    /\ ~ctx_succeeded
    /\ Len(yielded) >= ContextMaxRetries + 1
    /\ ctx_last_error /= NoError

\* What a context raises is the last recorded error
RaisesLastError ==
    (retry_mode = "context" /\ retry_pc = "raised") =>
        retry_outcome = [kind |-> "raise", exc |-> ctx_last_error]

\* C26: iterating a RetryContext yields 0, 1, 2, ... in order and at most
\* max_retries + 1 indices; once success() has been called no further index
\* is yielded; when all attempts are used up after at least one failed()
\* call, the next step raises the last recorded error instead of ending the
\* iteration silently.
C26_ContextIteration ==
    /\ [](YieldsInOrder /\ RaisesLastError /\ ~EndedSilentlyAfterFailure)
    /\ [][NoIndexAfterSuccess]_vars

-----------------------------------------------------------------------------
(* Probes of two threads *)

\* C30: when two probes on the same SmartLocator interleave, each with its
\* own override, neither probe's waits run with the other's override, and
\* after both have returned the locator's timeout equals the value it had
\* before either probe started.
C30_NoLeakBetweenThreads ==
    /\ \A k \in 1..Len(thread_waits) :
          thread_waits[k].timeout = thread_override[thread_waits[k].thread]
    /\ (\A t \in Threads : thread_pc[t] = "returned") => shared_timeout = timeout_before

====
